---- MODULE Spec2Model ----
(***************************************************************************)
(* A model of the reactivity core (packages/reactivity/src/effect.ts with  *)
(* the Dep helpers of dep.ts) and of the job scheduler                     *)
(* (packages/runtime-core/src/scheduler.ts).                               *)
(*                                                                         *)
(* User code (an effect's fn, a scheduler callback, a queued job, the host *)
(* program) is the environment: wherever user code has control it may call *)
(* any operation of the public interface.  The call stack is explicit, so  *)
(* that nested run / trigger / stop are interleavings of the model.        *)
(***************************************************************************)
EXTENDS Integers, Sequences, FiniteSets, TLC

(***************************************************************************)
(* Bounds of the model.                                                    *)
(***************************************************************************)
\* number of interface calls user code makes in one behaviour (reactivity)
MaxOps == 5
\* number of interface calls user code makes in one behaviour (scheduler)
MaxCalls == 5
\* number of interface calls user code makes on a sequence or keyed collection
MaxKindOps == 5
\* number of interface calls user code makes beyond the marker depth
MaxDeepOps == 4
\* number of interface calls user code makes after the first runs
MaxResubOps == 5
\* number of writes and reads user code makes on the deferred computeds
MaxBurstOps == 4

(***************************************************************************)
(* Program constants.                                                      *)
(***************************************************************************)
maxMarkerBits == 30

(***************************************************************************)
(* Generic helpers on sequences.                                           *)
(***************************************************************************)
Contains(s, x) == \E i \in 1..Len(s) : s[i] = x

SeqRemove(s, x) == SelectSeq(s, LAMBDA y : y # x)

\* the elements of an array
Elems(arr) == {arr[k] : k \in 1..Len(arr)}

\* number of occurrences of x in s
Count(s, x) == Cardinality({i \in 1..Len(s) : s[i] = x})

\* Set.add on an insertion-ordered set
SetAdd(s, x) == IF Contains(s, x) THEN s ELSE Append(s, x)

RECURSIVE Dedupe(_)
\* new Set(array) spread back to an array: first occurrences, in order
Dedupe(s) ==
  IF s = <<>> THEN <<>>
  ELSE LET front == Dedupe(SubSeq(s, 1, Len(s) - 1))
       IN SetAdd(front, s[Len(s)])

RECURSIVE Flatten(_)
Flatten(ss) == IF ss = <<>> THEN <<>> ELSE Head(ss) \o Flatten(Tail(ss))

(***************************************************************************)
(* 32-bit integer operations on the marker bits.  A marker word is kept as *)
(* a non-negative integer; `bit` is a power of two.                        *)
(***************************************************************************)
\* 1 << d  (the shift count is taken modulo 32, bit 31 is the sign bit)
Shl1(d) == IF d % 32 = 31 THEN -(2 ^ 30) - 2 ^ 30 ELSE 2 ^ (d % 32)

\* (x & bit) > 0
BitSet(x, bit) == bit > 0 /\ (x \div bit) % 2 = 1

\* x | bit
BitOr(x, bit) == IF BitSet(x, bit) THEN x ELSE x + bit

\* x & ~bit
BitClear(x, bit) == IF BitSet(x, bit) THEN x - bit ELSE x

(***************************************************************************)
(* The effects and the observed target.                                    *)
(***************************************************************************)
Effects == {"E1", "E2", "E3"}
NoEffect == "none"
Undefined == "undefined"

\* effect.computed is set (the effect backs a computed ref)
computed(e) == e \in {"E2", "E3"}
\* effect.scheduler is set
scheduler(e) == e = "E2"
\* effect.allowRecurse
allowRecurse(e) == e = "E3"

ITERATE_KEY == "Symbol(iterate)"
MAP_KEY_ITERATE_KEY == "Symbol(Map key iterate)"

TargetKinds == {"object", "array", "map"}

\* the keys of the one observed target that user code reads and writes
KeysOf(kind) ==
  CASE kind = "object" -> {"a", ITERATE_KEY}
    [] kind = "array"  -> {"length", "0", "1"}
    [] kind = "map"    -> {"a", ITERATE_KEY, MAP_KEY_ITERATE_KEY}

AllKeys == UNION {KeysOf(kind) : kind \in TargetKinds}

TriggerOpTypes == {"set", "add", "delete", "clear"}

\* Number(key) for the keys of the model; -1 stands for NaN
KeyNumber(k) == CASE k = "0" -> 0 [] k = "1" -> 1 [] OTHER -> -1

isIntegerKey(k) == KeyNumber(k) >= 0

(***************************************************************************)
(* State of the reactivity core.                                           *)
(***************************************************************************)
VARIABLES
  active,           \* effect -> ReactiveEffect.active
  deps,             \* effect -> ReactiveEffect.deps, the Deps by their key
  parent,           \* effect -> ReactiveEffect.parent, or NoEffect
  deferStop,        \* effect -> ReactiveEffect.deferStop
  onStopCalls,      \* effect -> number of invocations of its onStop hook
  targetKind,       \* the kind of the observed target
  depsMap,          \* targetMap.get(target): the keys with a Dep, in creation order
  members,          \* key -> the effects in the key's Dep, in insertion order
  w,                \* key -> Dep.w
  n,                \* key -> Dep.n
  activeEffect,
  shouldTrack,
  trackStack,
  effectTrackDepth,
  trackOpBit,
  stack,            \* the call stack: fn / scheduler bodies and triggerEffects loops
  exc,              \* an exception is propagating up the stack
  ops,              \* interface calls user code may still make
  trackSeq,         \* progress of a pauseTracking; enableTracking; resetTracking sequence
  lastRun           \* the run() that the last step left, or NoRun

heapVars == <<active, deps, deferStop, onStopCalls, depsMap, members, w, n>>
globalVars == <<activeEffect, shouldTrack, effectTrackDepth, trackOpBit, parent>>
evars == <<active, deps, parent, deferStop, onStopCalls, targetKind, depsMap,
           members, w, n, activeEffect, shouldTrack, trackStack,
           effectTrackDepth, trackOpBit, stack, exc, ops, trackSeq, lastRun>>

(***************************************************************************)
(* State of the scheduler.                                                 *)
(***************************************************************************)
VARIABLES
  queue,               \* the job queue
  flushIndex,
  isFlushing,
  isFlushPending,
  pendingPostFlushCbs,
  activePostFlushCbs,  \* [isNull, cbs]
  postFlushIndex,
  currentFlushPromise, \* "null", or the state of the promise of the drain
  jobActive,           \* job -> job.active !== false
  microtasks,          \* the host's microtask queue: flushJobs and nextTick fns
  thenQ,               \* the nextTick fns chained on currentFlushPromise
  callStack,           \* flushJobs / flushPreFlushCbs / flushPostFlushCbs loops and callables
  thrown,              \* an exception is propagating up callStack
  calls,               \* interface calls user code may still make
  region,              \* "sync": host code runs; "micro": the microtask checkpoint
  fresh,               \* jobs queueJob inserted since queue was last sorted or emptied
  accepted             \* job -> enqueues queueJob accepted that were not invalidated
                       \* and that no loop has reached yet (to invoke the job, or to
                       \* pass over it as inactive or as recursing too often)

svars == <<queue, flushIndex, isFlushing, isFlushPending, pendingPostFlushCbs,
           activePostFlushCbs, postFlushIndex, currentFlushPromise, jobActive,
           microtasks, thenQ, callStack, thrown, calls, region, fresh, accepted>>

(***************************************************************************)
(* State of the deferred computeds.                                        *)
(***************************************************************************)
VARIABLE
  dc                \* the deferred computeds, their scheduler queue, the source

vars == <<evars, svars, dc>>

\* the effects' and Deps' fields as one value, for the helpers that update them
H == [active |-> active, deps |-> deps, deferStop |-> deferStop,
      onStopCalls |-> onStopCalls, depsMap |-> depsMap, members |-> members,
      w |-> w, n |-> n]

SetH(h) ==
  /\ active' = h.active
  /\ deps' = h.deps
  /\ deferStop' = h.deferStop
  /\ onStopCalls' = h.onStopCalls
  /\ depsMap' = h.depsMap
  /\ members' = h.members
  /\ w' = h.w
  /\ n' = h.n

(***************************************************************************)
(* dep.ts                                                                  *)
(***************************************************************************)
wasTracked(h, dep, bit) == BitSet(h.w[dep], bit)

newTracked(h, dep, bit) == BitSet(h.n[dep], bit)

initDepMarkers(h, e, bit) ==
  [h EXCEPT !.w = [k \in DOMAIN h.w |->
                     IF Contains(h.deps[e], k) THEN BitOr(h.w[k], bit) ELSE h.w[k]]]

RECURSIVE finalizeLoop(_, _, _, _, _)
\* the loop of finalizeDepMarkers from index i on; kept is deps[0..ptr)
finalizeLoop(h, e, bit, i, kept) ==
  IF i > Len(h.deps[e])
  THEN [h EXCEPT !.deps = [h.deps EXCEPT ![e] = kept]]
  ELSE LET dep == h.deps[e][i]
           drop == wasTracked(h, dep, bit) /\ ~newTracked(h, dep, bit)
           h1 == [h EXCEPT
                    !.members = [h.members EXCEPT ![dep] =
                                   IF drop THEN SeqRemove(@, e) ELSE @],
                    !.w = [h.w EXCEPT ![dep] = BitClear(@, bit)],
                    !.n = [h.n EXCEPT ![dep] = BitClear(@, bit)]]
       IN finalizeLoop(h1, e, bit, i + 1, IF drop THEN kept ELSE Append(kept, dep))

finalizeDepMarkers(h, e, bit) == finalizeLoop(h, e, bit, 1, <<>>)

(***************************************************************************)
(* effect.ts: cleanupEffect, stop, trackEffects                            *)
(***************************************************************************)
cleanupEffect(h, e) ==
  [h EXCEPT
     !.members = [k \in DOMAIN h.members |->
                    IF Contains(h.deps[e], k) THEN SeqRemove(h.members[k], e)
                    ELSE h.members[k]],
     !.deps = [h.deps EXCEPT ![e] = <<>>]]

\* a plausible slip: stop() cleans up at once, also while the effect runs
stopNotDeferred(h, e, ae) ==
  IF h.active[e]
  THEN LET c == cleanupEffect(h, e)
       IN [c EXCEPT !.onStopCalls = [c.onStopCalls EXCEPT ![e] = @ + 1],
                    !.active = [c.active EXCEPT ![e] = FALSE]]
  ELSE h

\* ReactiveEffect.stop, with ae the active effect at the call
stop(h, e, ae) ==
  IF ae = e
  THEN [h EXCEPT !.deferStop = [h.deferStop EXCEPT ![e] = TRUE]]
  ELSE IF h.active[e]
       THEN LET c == cleanupEffect(h, e)
            IN [c EXCEPT !.onStopCalls = [c.onStopCalls EXCEPT ![e] = @ + 1],
                         !.active = [c.active EXCEPT ![e] = FALSE]]
       ELSE h

\* a plausible slip: subscribe whenever the Dep is not yet marked as new
trackEffectsNoWasCheck(h, dep, ae, depth, bit) ==
  LET marker == depth <= maxMarkerBits
      sub == IF marker THEN ~newTracked(h, dep, bit)
             ELSE ~Contains(h.members[dep], ae)
      h1 == IF marker /\ ~newTracked(h, dep, bit)
            THEN [h EXCEPT !.n = [h.n EXCEPT ![dep] = BitOr(@, bit)]]
            ELSE h
  IN IF sub
     THEN [h1 EXCEPT !.members = [h1.members EXCEPT ![dep] = SetAdd(@, ae)],
                     !.deps = [h1.deps EXCEPT ![ae] = Append(@, dep)]]
     ELSE h1

\* a plausible slip: full-cleanup mode subscribes without the membership check
trackEffectsNoHasCheck(h, dep, ae, depth, bit) ==
  LET marker == depth <= maxMarkerBits
      sub == IF marker
             THEN ~newTracked(h, dep, bit) /\ ~wasTracked(h, dep, bit)
             ELSE TRUE
      h1 == IF marker /\ ~newTracked(h, dep, bit)
            THEN [h EXCEPT !.n = [h.n EXCEPT ![dep] = BitOr(@, bit)]]
            ELSE h
  IN IF sub
     THEN [h1 EXCEPT !.members = [h1.members EXCEPT ![dep] = SetAdd(@, ae)],
                     !.deps = [h1.deps EXCEPT ![ae] = Append(@, dep)]]
     ELSE h1

\* trackEffects(dep) with ae the active effect
trackEffects(h, dep, ae, depth, bit) ==
  LET marker == depth <= maxMarkerBits
      sub == IF marker
             THEN ~newTracked(h, dep, bit) /\ ~wasTracked(h, dep, bit)
             ELSE ~Contains(h.members[dep], ae)
      h1 == IF marker /\ ~newTracked(h, dep, bit)
            THEN [h EXCEPT !.n = [h.n EXCEPT ![dep] = BitOr(@, bit)]]
            ELSE h
  IN IF sub
     THEN [h1 EXCEPT !.members = [h1.members EXCEPT ![dep] = SetAdd(@, ae)],
                     !.deps = [h1.deps EXCEPT ![ae] = Append(@, dep)]]
     ELSE h1

\* track(target, type, key): the Dep is created on first use
track(h, key, ae, st, depth, bit) ==
  IF st /\ ae # NoEffect
  THEN trackEffects([h EXCEPT !.depsMap = SetAdd(@, key)], key, ae, depth, bit)
  ELSE h

(***************************************************************************)
(* effect.ts: pauseTracking / enableTracking / resetTracking, on the pair  *)
(* (shouldTrack, trackStack)                                               *)
(***************************************************************************)
pauseTracking(s) ==
  [shouldTrack |-> FALSE, trackStack |-> Append(s.trackStack, s.shouldTrack)]

\* a plausible slip: enable without saving the previous state
enableTrackingNoPush(s) ==
  [shouldTrack |-> TRUE, trackStack |-> s.trackStack]

enableTracking(s) ==
  [shouldTrack |-> TRUE, trackStack |-> Append(s.trackStack, s.shouldTrack)]

resetTracking(s) ==
  IF s.trackStack = <<>>
  THEN [shouldTrack |-> TRUE, trackStack |-> <<>>]
  ELSE [shouldTrack |-> s.trackStack[Len(s.trackStack)],
        trackStack |-> SubSeq(s.trackStack, 1, Len(s.trackStack) - 1)]

(***************************************************************************)
(* effect.ts: trigger, the selection of the Deps and of the effects        *)
(***************************************************************************)
isArray == targetKind = "array"

isMap == targetKind = "map"

\* depsMap.get(key)
depOf(key) == IF Contains(depsMap, key) THEN key ELSE Undefined

\* a plausible slip: truncation fires only the indices beyond the new length
triggerDepsStrict(type, key, newValue) ==
  IF type = "clear" THEN depsMap
  ELSE IF key = "length" /\ isArray
  THEN SelectSeq(depsMap, LAMBDA k : k = "length" \/ KeyNumber(k) > newValue)
  ELSE (IF key # Undefined THEN <<depOf(key)>> ELSE <<>>) \o
       (CASE type = "add" ->
               IF ~isArray
               THEN <<depOf(ITERATE_KEY)>> \o
                    (IF isMap THEN <<depOf(MAP_KEY_ITERATE_KEY)>> ELSE <<>>)
               ELSE IF isIntegerKey(key) THEN <<depOf("length")>> ELSE <<>>
          [] type = "delete" ->
               IF ~isArray
               THEN <<depOf(ITERATE_KEY)>> \o
                    (IF isMap THEN <<depOf(MAP_KEY_ITERATE_KEY)>> ELSE <<>>)
               ELSE <<>>
          [] type = "set" ->
               IF isMap THEN <<depOf(ITERATE_KEY)>> ELSE <<>>)

\* the list `deps` that trigger assembles (Undefined for a missing Dep)
triggerDeps(type, key, newValue) ==
  IF type = "clear" THEN depsMap
  ELSE IF key = "length" /\ isArray
  THEN SelectSeq(depsMap, LAMBDA k : k = "length" \/ KeyNumber(k) >= newValue)
  ELSE (IF key # Undefined THEN <<depOf(key)>> ELSE <<>>) \o
       (CASE type = "add" ->
               IF ~isArray
               THEN <<depOf(ITERATE_KEY)>> \o
                    (IF isMap THEN <<depOf(MAP_KEY_ITERATE_KEY)>> ELSE <<>>)
               ELSE IF isIntegerKey(key) THEN <<depOf("length")>> ELSE <<>>
          [] type = "delete" ->
               IF ~isArray
               THEN <<depOf(ITERATE_KEY)>> \o
                    (IF isMap THEN <<depOf(MAP_KEY_ITERATE_KEY)>> ELSE <<>>)
               ELSE <<>>
          [] type = "set" ->
               IF isMap THEN <<depOf(ITERATE_KEY)>> ELSE <<>>)

\* a plausible slip: the effects of the Deps are concatenated, not merged
triggerListNoMerge(type, key, newValue) ==
  IF depsMap = <<>> THEN <<>>
  ELSE LET ds == triggerDeps(type, key, newValue)
           defined == SelectSeq(ds, LAMBDA d : d # Undefined)
       IN IF Len(ds) = 1
          THEN (IF ds[1] # Undefined THEN members[ds[1]] ELSE <<>>)
          ELSE Flatten([i \in 1..Len(defined) |-> members[defined[i]]])

\* the effects handed to triggerEffects, as the array it iterates
triggerList(type, key, newValue) ==
  IF depsMap = <<>> THEN <<>>
  ELSE LET ds == triggerDeps(type, key, newValue)
           defined == SelectSeq(ds, LAMBDA d : d # Undefined)
       IN IF Len(ds) = 1
          THEN (IF ds[1] # Undefined THEN members[ds[1]] ELSE <<>>)
          ELSE Dedupe(Flatten([i \in 1..Len(defined) |-> members[defined[i]]]))

\* the inputs of trigger that user code uses on a target of the given kind
TriggerInputs(kind) ==
  CASE kind = "object" ->
         {<<"set", "a", 0>>, <<"add", "a", 0>>, <<"delete", "a", 0>>,
          <<"clear", Undefined, 0>>}
    [] kind = "array" ->
         {<<"set", "0", 0>>, <<"add", "1", 0>>, <<"set", "length", 0>>,
          <<"set", "length", 1>>, <<"delete", "1", 0>>}
    [] kind = "map" ->
         {<<"set", "a", 0>>, <<"add", "a", 0>>, <<"delete", "a", 0>>,
          <<"clear", Undefined, 0>>}

(***************************************************************************)
(* Call stack frames.                                                      *)
(*   fn    the body of effect e's fn; tracked = run() installed e as the   *)
(*         active effect, so that its finally block runs on exit           *)
(*   sched the body of effect e's scheduler                                *)
(*   trig  a triggerEffects loop over `effects`, in pass 1 or 2 at idx;    *)
(*         fired lists the effects it has handed to triggerEffect,         *)
(*         stoppedAtStart the effects that were stopped when it began, op  *)
(*         the arguments of the trigger call                               *)
(* A tracked fn frame also keeps, for the properties, the tracking state   *)
(* before run() began (before), the Deps of e at that time (had) and the   *)
(* keys for which track was called while e was the active effect and       *)
(* shouldTrack was true (read), and whether e, active, called stop() on    *)
(* itself (selfStop).                                                      *)
(***************************************************************************)
\* no trigger call
NoOp == <<"", Undefined, 0>>

\* the module-level tracking state that run() changes and restores
Globals ==
  [activeEffect |-> activeEffect, shouldTrack |-> shouldTrack,
   effectTrackDepth |-> effectTrackDepth, trackOpBit |-> trackOpBit]

NoGlobals ==
  [activeEffect |-> NoEffect, shouldTrack |-> FALSE,
   effectTrackDepth |-> 0, trackOpBit |-> 0]

FnFrame(e, tracked, lst, via) ==
  [kind |-> "fn", e |-> e, tracked |-> tracked, lastShouldTrack |-> lst,
   via |-> via, effects |-> <<>>, pass |-> 0, idx |-> 0, fired |-> <<>>,
   stoppedAtStart |-> {}, op |-> NoOp,
   before |-> IF tracked THEN Globals ELSE NoGlobals,
   had |-> IF tracked THEN Elems(deps[e]) ELSE {}, read |-> {},
   selfStop |-> FALSE]

SchedFrame(e, via) ==
  [kind |-> "sched", e |-> e, tracked |-> FALSE, lastShouldTrack |-> FALSE,
   via |-> via, effects |-> <<>>, pass |-> 0, idx |-> 0, fired |-> <<>>,
   stoppedAtStart |-> {}, op |-> NoOp,
   before |-> NoGlobals, had |-> {}, read |-> {}, selfStop |-> FALSE]

TrigFrame(effects, op) ==
  [kind |-> "trig", e |-> NoEffect, tracked |-> FALSE, lastShouldTrack |-> FALSE,
   via |-> "", effects |-> effects, pass |-> 1, idx |-> 1, fired |-> <<>>,
   stoppedAtStart |-> {e \in Effects : ~active[e]}, op |-> op,
   before |-> NoGlobals, had |-> {}, read |-> {}, selfStop |-> FALSE]

\* the host program's code, below every frame
HostFrame ==
  [kind |-> "host", e |-> NoEffect, tracked |-> FALSE, lastShouldTrack |-> FALSE,
   via |-> "", effects |-> <<>>, pass |-> 0, idx |-> 0, fired |-> <<>>,
   stoppedAtStart |-> {}, op |-> NoOp,
   before |-> NoGlobals, had |-> {}, read |-> {}, selfStop |-> FALSE]

Top == IF stack = <<>> THEN HostFrame ELSE stack[Len(stack)]

Pop(s) == SubSeq(s, 1, Len(s) - 1)

\* user code has control: the host program, an fn or a scheduler body
UserCtx == ~exc /\ Top.kind \in {"host", "fn", "sched"}

IdleSeq == [stage |-> 0, prior |-> FALSE, depth |-> 0]

RECURSIVE ChainHas(_, _, _)
\* the while loop of run(): is e on the chain p, p.parent, ... ?
ChainHas(p, e, fuel) ==
  IF p = NoEffect \/ fuel = 0 THEN FALSE
  ELSE IF p = e THEN TRUE
  ELSE ChainHas(parent[p], e, fuel - 1)

(***************************************************************************)
(* ReactiveEffect.run up to the call of fn, pushing onto the stack stk     *)
(***************************************************************************)
EnterRun(e, via, stk) ==
  IF ~active[e]
  THEN /\ stack' = Append(stk, FnFrame(e, FALSE, shouldTrack, via))
       /\ UNCHANGED <<heapVars, globalVars>>
  ELSE IF ChainHas(activeEffect, e, Cardinality(Effects) + 1)
  THEN /\ stack' = stk
       /\ UNCHANGED <<heapVars, globalVars>>
  ELSE LET d == effectTrackDepth + 1
           bit == Shl1(d)
       IN /\ parent' = [parent EXCEPT ![e] = activeEffect]
          /\ activeEffect' = e
          /\ shouldTrack' = TRUE
          /\ effectTrackDepth' = d
          /\ trackOpBit' = bit
          /\ SetH(IF d <= maxMarkerBits THEN initDepMarkers(H, e, bit)
                  ELSE cleanupEffect(H, e))
          /\ stack' = Append(stk, FnFrame(e, TRUE, shouldTrack, via))

(***************************************************************************)
(* Leaving frame f: for a tracked fn frame the finally block of run()      *)
(***************************************************************************)
\* a plausible slip: the finally block resets activeEffect instead of
\* restoring the enclosing effect
ExitFrameToHost(f) ==
  IF f.kind = "fn" /\ f.tracked
  THEN LET e == f.e
           h1 == IF effectTrackDepth <= maxMarkerBits
                 THEN finalizeDepMarkers(H, e, trackOpBit) ELSE H
           h2 == IF h1.deferStop[e] THEN stop(h1, e, NoEffect) ELSE h1
       IN /\ effectTrackDepth' = effectTrackDepth - 1
          /\ trackOpBit' = Shl1(effectTrackDepth - 1)
          /\ activeEffect' = NoEffect
          /\ shouldTrack' = f.lastShouldTrack
          /\ parent' = [parent EXCEPT ![e] = NoEffect]
          /\ SetH(h2)
  ELSE UNCHANGED <<heapVars, globalVars>>

ExitFrame(f) ==
  IF f.kind = "fn" /\ f.tracked
  THEN LET e == f.e
           h1 == IF effectTrackDepth <= maxMarkerBits
                 THEN finalizeDepMarkers(H, e, trackOpBit) ELSE H
           ae == parent[e]
           h2 == IF h1.deferStop[e] THEN stop(h1, e, ae) ELSE h1
       IN /\ effectTrackDepth' = effectTrackDepth - 1
          /\ trackOpBit' = Shl1(effectTrackDepth - 1)
          /\ activeEffect' = ae
          /\ shouldTrack' = f.lastShouldTrack
          /\ parent' = [parent EXCEPT ![e] = NoEffect]
          /\ SetH(h2)
  ELSE UNCHANGED <<heapVars, globalVars>>

\* no run() has just been left
NoRun ==
  [e |-> NoEffect, raised |-> FALSE, depth |-> 0, bit |-> 0,
   before |-> NoGlobals, had |-> {}, read |-> {}, selfStop |-> FALSE]

\* the run() that leaving frame f ends: its effect, its depth and marker bit,
\* and whether fn raised
Exited(f, raised) ==
  IF f.kind = "fn" /\ f.tracked
  THEN [e |-> f.e, raised |-> raised, depth |-> effectTrackDepth,
        bit |-> trackOpBit, before |-> f.before, had |-> f.had,
        read |-> f.read, selfStop |-> f.selfStop]
  ELSE NoRun

\* track(key) is called: the frame of the active effect's run notes the key
Noted(stk, key) ==
  IF shouldTrack /\ activeEffect # NoEffect
  THEN [k \in 1..Len(stk) |->
          IF stk[k].kind = "fn" /\ stk[k].tracked /\ stk[k].e = activeEffect
          THEN [stk[k] EXCEPT !.read = @ \cup {key}]
          ELSE stk[k]]
  ELSE stk

\* stop() is called on e: the frame of e's run notes a stop of the active,
\* not yet stopped, effect by itself
SelfStopNoted(stk, e) ==
  IF activeEffect = e /\ active[e]
  THEN [k \in 1..Len(stk) |->
          IF stk[k].kind = "fn" /\ stk[k].tracked /\ stk[k].e = e
          THEN [stk[k] EXCEPT !.selfStop = TRUE]
          ELSE stk[k]]
  ELSE stk

(***************************************************************************)
(* Operations called by user code.                                         *)
(***************************************************************************)
Track(key) ==
  /\ UNCHANGED <<svars, dc>>
  /\ lastRun' = NoRun
  /\ UserCtx /\ ops > 0
  /\ key \in KeysOf(targetKind)
  /\ SetH(track(H, key, activeEffect, shouldTrack, effectTrackDepth, trackOpBit))
  /\ stack' = Noted(stack, key)
  /\ ops' = ops - 1
  /\ trackSeq' = IdleSeq
  /\ UNCHANGED <<globalVars, targetKind, trackStack, exc>>

Trigger(type, key, newValue) ==
  /\ UNCHANGED <<svars, dc>>
  /\ lastRun' = NoRun
  /\ UserCtx /\ ops > 0
  /\ <<type, key, newValue>> \in TriggerInputs(targetKind)
  /\ LET effects == triggerList(type, key, newValue)
     IN stack' = IF effects = <<>> THEN stack
                 ELSE Append(stack, TrigFrame(effects, <<type, key, newValue>>))
  /\ ops' = ops - 1
  /\ trackSeq' = IdleSeq
  /\ UNCHANGED <<heapVars, globalVars, targetKind, trackStack, exc>>

\* user code calls the runner of e
Run(e) ==
  /\ UNCHANGED <<svars, dc>>
  /\ lastRun' = NoRun
  /\ UserCtx /\ ops > 0
  /\ EnterRun(e, "direct", stack)
  /\ ops' = ops - 1
  /\ trackSeq' = IdleSeq
  /\ UNCHANGED <<targetKind, trackStack, exc>>

Stop(e) ==
  /\ UNCHANGED <<svars, dc>>
  /\ lastRun' = NoRun
  /\ UserCtx /\ ops > 0
  /\ SetH(stop(H, e, activeEffect))
  /\ stack' = SelfStopNoted(stack, e)
  /\ ops' = ops - 1
  /\ trackSeq' = IdleSeq
  /\ UNCHANGED <<globalVars, targetKind, trackStack, exc>>

TrackingState == [shouldTrack |-> shouldTrack, trackStack |-> trackStack]

PauseTracking ==
  /\ UNCHANGED <<svars, dc>>
  /\ lastRun' = NoRun
  /\ UserCtx /\ ops > 0
  /\ LET s == pauseTracking(TrackingState)
     IN shouldTrack' = s.shouldTrack /\ trackStack' = s.trackStack
  /\ trackSeq' = [stage |-> 1, prior |-> shouldTrack, depth |-> Len(trackStack)]
  /\ ops' = ops - 1
  /\ UNCHANGED <<heapVars, activeEffect, effectTrackDepth, trackOpBit, parent,
                 targetKind, stack, exc>>

EnableTracking ==
  /\ UNCHANGED <<svars, dc>>
  /\ lastRun' = NoRun
  /\ UserCtx /\ ops > 0
  /\ LET s == enableTracking(TrackingState)
     IN shouldTrack' = s.shouldTrack /\ trackStack' = s.trackStack
  /\ trackSeq' = IF trackSeq.stage = 1 THEN [trackSeq EXCEPT !.stage = 2] ELSE IdleSeq
  /\ ops' = ops - 1
  /\ UNCHANGED <<heapVars, activeEffect, effectTrackDepth, trackOpBit, parent,
                 targetKind, stack, exc>>

ResetTracking ==
  /\ UNCHANGED <<svars, dc>>
  /\ lastRun' = NoRun
  /\ UserCtx /\ ops > 0
  /\ LET s == resetTracking(TrackingState)
     IN shouldTrack' = s.shouldTrack /\ trackStack' = s.trackStack
  /\ trackSeq' = IF trackSeq.stage \in {2, 3}
                 THEN [trackSeq EXCEPT !.stage = @ + 1] ELSE IdleSeq
  /\ ops' = ops - 1
  /\ UNCHANGED <<heapVars, activeEffect, effectTrackDepth, trackOpBit, parent,
                 targetKind, stack, exc>>

\* the fn or scheduler body on top of the stack returns
Return ==
  /\ UNCHANGED <<svars, dc>>
  /\ lastRun' = Exited(Top, FALSE)
  /\ ~exc /\ Top.kind \in {"fn", "sched"}
  /\ ExitFrame(Top)
  /\ stack' = Pop(stack)
  /\ trackSeq' = IdleSeq
  /\ UNCHANGED <<targetKind, trackStack, exc, ops>>

\* the fn or scheduler body on top of the stack raises
Throw ==
  /\ UNCHANGED <<svars, dc>>
  /\ lastRun' = Exited(Top, TRUE)
  /\ ~exc /\ Top.kind \in {"fn", "sched"}
  /\ ops > 0
  /\ ExitFrame(Top)
  /\ stack' = Pop(stack)
  /\ exc' = (Len(stack) > 1)
  /\ ops' = ops - 1
  /\ trackSeq' = IdleSeq
  /\ UNCHANGED <<targetKind, trackStack>>

\* the exception leaves a triggerEffects loop, or an fn that does not catch it
Propagate ==
  /\ UNCHANGED <<svars, dc>>
  /\ lastRun' = Exited(Top, TRUE)
  /\ exc
  /\ ExitFrame(Top)
  /\ stack' = Pop(stack)
  /\ exc' = (Len(stack) > 1)
  /\ trackSeq' = IdleSeq
  /\ UNCHANGED <<targetKind, trackStack, ops>>

\* user code catches the exception of a call it made
Catch ==
  /\ UNCHANGED <<svars, dc>>
  /\ lastRun' = NoRun
  /\ exc /\ Top.kind \in {"fn", "sched"}
  /\ exc' = FALSE
  /\ trackSeq' = IdleSeq
  /\ UNCHANGED <<heapVars, globalVars, targetKind, trackStack, stack, ops>>

(***************************************************************************)
(* triggerEffects / triggerEffect: one step of the loop on top of the      *)
(* stack                                                                   *)
(***************************************************************************)
\* a plausible slip: one pass in the order of the Dep
PassMatchesOnePass(e, pass) == pass = 1

\* the condition that selects effect e in the given pass of triggerEffects
PassMatches(e, pass) == IF pass = 1 THEN computed(e) ELSE ~computed(e)

TriggerStep ==
  /\ UNCHANGED <<svars, dc>>
  /\ lastRun' = NoRun
  /\ ~exc /\ Top.kind = "trig"
  /\ trackSeq' = IdleSeq
  /\ UNCHANGED <<targetKind, trackStack, exc, ops>>
  /\ LET f == Top
         rest == Pop(stack)
     IN IF f.idx > Len(f.effects)
        THEN /\ stack' = IF f.pass = 1
                         THEN Append(rest, [f EXCEPT !.pass = 2, !.idx = 1])
                         ELSE rest
             /\ UNCHANGED <<heapVars, globalVars>>
        ELSE LET e == f.effects[f.idx]
                 skipped == Append(rest, [f EXCEPT !.idx = @ + 1])
                 \* triggerEffect(e) is called
                 called == Append(rest, [f EXCEPT !.idx = @ + 1,
                                                  !.fired = Append(@, e)])
             IN IF PassMatches(e, f.pass)
                THEN IF e # activeEffect \/ allowRecurse(e)
                     THEN IF scheduler(e)
                          THEN /\ stack' = Append(called, SchedFrame(e, "trigger"))
                               /\ UNCHANGED <<heapVars, globalVars>>
                          ELSE EnterRun(e, "trigger", called)
                     ELSE /\ stack' = called
                          /\ UNCHANGED <<heapVars, globalVars>>
                ELSE /\ stack' = skipped
                     /\ UNCHANGED <<heapVars, globalVars>>

(***************************************************************************)
(* The reactivity core as a state machine.                                 *)
(***************************************************************************)
\* no effect has run yet
InitHeap ==
  /\ active = [e \in Effects |-> TRUE]
  /\ deps = [e \in Effects |-> <<>>]
  /\ parent = [e \in Effects |-> NoEffect]
  /\ deferStop = [e \in Effects |-> FALSE]
  /\ onStopCalls = [e \in Effects |-> 0]
  /\ depsMap = <<>>
  /\ members = [k \in AllKeys |-> <<>>]
  /\ w = [k \in AllKeys |-> 0]
  /\ n = [k \in AllKeys |-> 0]
  /\ activeEffect = NoEffect
  /\ shouldTrack = TRUE
  /\ trackStack = <<>>
  /\ stack = <<>>
  /\ exc = FALSE
  /\ trackSeq = IdleSeq
  /\ lastRun = NoRun

InitE ==
  /\ InitHeap
  /\ effectTrackDepth = 0
  /\ trackOpBit = 1
  /\ ops = MaxOps

NextE ==
  \/ \E key \in AllKeys : Track(key)
  \/ \E type \in TriggerOpTypes, key \in AllKeys \cup {Undefined}, newValue \in 0..1 :
       Trigger(type, key, newValue)
  \/ \E e \in Effects : Run(e)
  \/ \E e \in Effects : Stop(e)
  \/ PauseTracking
  \/ EnableTracking
  \/ ResetTracking
  \/ Return
  \/ Throw
  \/ Propagate
  \/ Catch
  \/ TriggerStep

(***************************************************************************)
(*                                                                         *)
(*                  The scheduler (runtime-core/scheduler.ts)              *)
(*                                                                         *)
(***************************************************************************)
RECURSION_LIMIT == 100

\* __DEV__: the recursion check of checkRecursiveUpdates is compiled in
DEV == TRUE

\* the callables of the model: queue jobs, post-flush callbacks, nextTick fns
Jobs == {"J1", "J2", "J3", "J4"}
PostCbs == {"P1", "P2"}
TickFn == "T1"
FlushJobsFn == "flushJobs"
Callables == Jobs \cup PostCbs

\* job.id != null
hasId(f) == f \in {"J1", "J2", "J3", "P1", "P2"}

\* job.id
idOf(f) ==
  CASE f = "J1" -> 1 [] f = "J2" -> 1 [] f = "J3" -> 2
    [] f = "P1" -> 2 [] f = "P2" -> 1 [] OTHER -> 0

\* job.pre
pre(f) == f = "J1"

\* job.allowRecurse
jobAllowRecurse(f) == f \in {"J2", "P2"}

\* the batches queuePostFlushCb is called with (a component's lifecycle hooks)
PostBatches == {<<"P1", "P2">>}

(***************************************************************************)
(* Array helpers with JavaScript's 0-based indices.                        *)
(***************************************************************************)
\* arr.includes(x, from)
includes(arr, x, from) == \E k \in (from + 1)..Len(arr) : arr[k] = x

\* arr.indexOf(x), -1 when absent
indexOf(arr, x) ==
  IF Contains(arr, x)
  THEN (CHOOSE k \in 1..Len(arr) : arr[k] = x /\ \A m \in 1..(k - 1) : arr[m] # x) - 1
  ELSE -1

\* arr.splice(at, 1)
RemoveAt(arr, at) ==
  [k \in 1..(Len(arr) - 1) |-> IF k <= at THEN arr[k] ELSE arr[k + 1]]

\* arr.splice(at, 0, x); a start beyond the end is clamped to the end
InsertAt(arr, at, x) ==
  LET a == IF at > Len(arr) THEN Len(arr) ELSE at
  IN [k \in 1..(Len(arr) + 1) |->
        IF k <= a THEN arr[k] ELSE IF k = a + 1 THEN x ELSE arr[k - 1]]


(***************************************************************************)
(* getId, comparator and the sorts.  getId is Infinity for a job without   *)
(* id; Infinity - Infinity is NaN, which sort treats as 0.                 *)
(***************************************************************************)
\* getId(a) < getId(b)
idLess(a, b) ==
  IF hasId(a) THEN (IF hasId(b) THEN idOf(a) < idOf(b) ELSE TRUE) ELSE FALSE

\* the sign of getId(a) - getId(b), 0 for NaN
idDiff(a, b) == IF idLess(a, b) THEN -1 ELSE IF idLess(b, a) THEN 1 ELSE 0

\* the sign of comparator(a, b), 0 for NaN
comparator(a, b) ==
  LET diff == idDiff(a, b)
      isZero == hasId(a) /\ hasId(b) /\ idOf(a) = idOf(b)
  IN IF isZero
     THEN IF pre(a) /\ ~pre(b) THEN -1
          ELSE IF pre(b) /\ ~pre(a) THEN 1
          ELSE 0
     ELSE diff

\* the comparison a sort uses: comparator for queue, the id difference for
\* the post-flush callbacks
sortCmp(full, a, b) == IF full THEN comparator(a, b) ELSE idDiff(a, b)

RECURSIVE StableInsert(_, _, _)
\* x put into the sorted array after every element that does not sort after it
StableInsert(sorted, x, full) ==
  IF sorted = <<>> THEN <<x>>
  ELSE IF sortCmp(full, x, sorted[Len(sorted)]) < 0
       THEN Append(StableInsert(SubSeq(sorted, 1, Len(sorted) - 1), x, full),
                   sorted[Len(sorted)])
       ELSE Append(sorted, x)

RECURSIVE StableSort(_, _)
\* Array.prototype.sort, which is stable
StableSort(arr, full) ==
  IF arr = <<>> THEN <<>>
  ELSE StableInsert(StableSort(SubSeq(arr, 1, Len(arr) - 1), full), arr[Len(arr)], full)

RECURSIVE bsearch(_, _, _, _)
\* the while loop of findInsertionIndex for a job f with an id
bsearch(q, f, start, end) ==
  IF start < end
  THEN LET middle == (start + end) \div 2
       IN IF idLess(q[middle + 1], f)
          THEN bsearch(q, f, middle + 1, end)
          ELSE bsearch(q, f, start, middle)
  ELSE start

\* a plausible slip: always insert at the end of the queue
findInsertionIndexAtEnd(q, fi, f) == Len(q)

\* findInsertionIndex(job.id) on queue q with flushIndex fi
findInsertionIndex(q, fi, f) == bsearch(q, f, fi + 1, Len(q))

(***************************************************************************)
(* checkRecursiveUpdates on a count map (0: no entry)                      *)
(***************************************************************************)
NoSeen == [f \in Callables |-> 0]

\* a plausible slip: the count is compared with >= instead of >
checkSkipsAtLimit(seen, f) == DEV /\ seen[f] >= RECURSION_LIMIT

\* TRUE when the callable is to be skipped
checkSkips(seen, f) == DEV /\ seen[f] > RECURSION_LIMIT

\* the count map after the check
checkSeen(seen, f) ==
  IF ~DEV THEN seen
  ELSE IF seen[f] = 0 THEN [seen EXCEPT ![f] = 1]
  ELSE IF seen[f] > RECURSION_LIMIT THEN seen
  ELSE [seen EXCEPT ![f] = @ + 1]

(***************************************************************************)
(* Microtasks.  An entry is flushJobs or a nextTick fn; a nextTick entry   *)
(* remembers how it was registered:                                        *)
(*   reg      "inflight": nextTick was called with a drain pending or      *)
(*            running, "idle": with none                                   *)
(*   waiting  the drain it was registered under has not finished           *)
(*   open     the synchronous region of the call has not ended             *)
(*   flushed  a flushJobs microtask began after the call                   *)
(*   owed     jobs queueJob accepted while waiting or open (for an         *)
(*            in-flight entry also those pending at the call) and that     *)
(*            were not run, skipped or removed since                       *)
(***************************************************************************)
FlushEntry ==
  [fn |-> FlushJobsFn, reg |-> "none", waiting |-> FALSE, open |-> FALSE,
   flushed |-> FALSE, owed |-> {}]

TickEntry(reg, owed) ==
  [fn |-> TickFn, reg |-> reg, waiting |-> (reg = "inflight"),
   open |-> (reg = "idle"), flushed |-> FALSE, owed |-> owed]

\* queueJob accepted job j
EntryEnqueued(t, j) ==
  IF t.waiting \/ t.open THEN [t EXCEPT !.owed = @ \cup {j}] ELSE t

\* job j was started, skipped or removed
EntryGone(t, j) == [t EXCEPT !.owed = @ \ {j}]

\* the drain returned (normal) or was left by an exception
EntryDrained(t, normal) ==
  [t EXCEPT !.waiting = FALSE, !.owed = IF normal \/ ~t.waiting THEN @ ELSE {}]

\* the synchronous region ended
EntryClosed(t) == [t EXCEPT !.open = FALSE]

\* a flushJobs microtask began
EntryFlushed(t) == [t EXCEPT !.flushed = TRUE]

MapSeq(ts, Op(_)) == [k \in 1..Len(ts) |-> Op(ts[k])]

(***************************************************************************)
(* Frames of callStack.                                                    *)
(*   "flush" the body of flushJobs, its recursive passes included          *)
(*   "pre"   the loop of flushPreFlushCbs                                  *)
(*   "post"  the loop of flushPostFlushCbs                                 *)
(*   "call"  a callable running: role job / pre / post / tick              *)
(***************************************************************************)
NoFrame ==
  [kind |-> "host", fn |-> "none", role |-> "none", seen |-> NoSeen, pass |-> 0,
   i |-> 0, byFlush |-> FALSE, ran |-> <<>>, tick |-> FlushEntry]

FlushFrame == [NoFrame EXCEPT !.kind = "flush", !.pass = 1]

PreFrame(i) == [NoFrame EXCEPT !.kind = "pre", !.i = i]

PostFrame(seen, byFlush) ==
  [NoFrame EXCEPT !.kind = "post", !.seen = seen, !.byFlush = byFlush]

CallFrame(f, role) == [NoFrame EXCEPT !.kind = "call", !.fn = f, !.role = role]

TickFrame(t) == [NoFrame EXCEPT !.kind = "call", !.fn = t.fn, !.role = "tick", !.tick = t]

STop == IF callStack = <<>> THEN NoFrame ELSE callStack[Len(callStack)]

\* flushJobs is on the stack
Flushing == \E k \in 1..Len(callStack) : callStack[k].kind = "flush"

\* the drain loop is inside a job
JobRunning ==
  \E k \in 1..Len(callStack) : callStack[k].kind = "call" /\ callStack[k].role = "job"

\* a drain is scheduled or running
DrainInFlight == isFlushPending \/ Flushing

\* user code has control and may call the scheduler
SUserCtx ==
  /\ ~thrown
  /\ calls > 0
  /\ IF callStack = <<>> THEN region = "sync" ELSE STop.kind = "call"

\* 0-based index of the first queue entry the drain has not started
FirstPending == IF JobRunning THEN flushIndex + 1 ELSE flushIndex

\* job j is in queue and has not started running
Pending(q, j) == includes(q, j, FirstPending)

InitS ==
  /\ queue = <<>>
  /\ flushIndex = 0
  /\ isFlushing = FALSE
  /\ isFlushPending = FALSE
  /\ pendingPostFlushCbs = <<>>
  /\ activePostFlushCbs = [isNull |-> TRUE, cbs |-> <<>>]
  /\ postFlushIndex = 0
  /\ currentFlushPromise = "null"
  /\ jobActive = [j \in Jobs |-> TRUE]
  /\ microtasks = <<>>
  /\ thenQ = <<>>
  /\ callStack = <<>>
  /\ thrown = FALSE
  /\ calls = MaxCalls
  /\ region = "sync"
  /\ fresh = {}
  /\ accepted = [j \in Jobs |-> 0]

(***************************************************************************)
(* Operations called by user code: host code in its synchronous region or  *)
(* a callable the scheduler is running.                                    *)
(***************************************************************************)
\* a plausible slip: the new microtask overtakes the ones already queued
enqueueMicrotaskFirst(mt, t) == <<t>> \o mt

\* resolvedPromise.then(f): f joins the microtask queue at its end
enqueueMicrotask(mt, t) == Append(mt, t)

\* a plausible slip: the flags are not consulted
queueFlushUnguarded(mt, tq) ==
  /\ isFlushPending' = TRUE
  /\ currentFlushPromise' = "pending"
  /\ microtasks' = enqueueMicrotask(mt, FlushEntry)
  /\ thenQ' = <<>>

\* queueFlush(), given the microtasks and the chained fns as they are now
queueFlush(mt, tq) ==
  IF ~isFlushing /\ ~isFlushPending
  THEN /\ isFlushPending' = TRUE
       /\ currentFlushPromise' = "pending"
       /\ microtasks' = enqueueMicrotask(mt, FlushEntry)
       /\ thenQ' = <<>>
  ELSE /\ microtasks' = mt
       /\ thenQ' = tq
       /\ UNCHANGED <<isFlushPending, currentFlushPromise>>

\* the dedupe condition of queueJob
queueJobAccepts(j) ==
  \/ queue = <<>>
  \/ ~includes(queue, j, IF isFlushing /\ jobAllowRecurse(j) THEN flushIndex + 1
                                                            ELSE flushIndex)

\* queue after queueJob(j) found j absent
queueJobInsert(j) ==
  IF ~hasId(j) THEN Append(queue, j)
  ELSE InsertAt(queue, findInsertionIndex(queue, flushIndex, j), j)

\* queueJob(j)
queueJobCall(j) ==
  /\ IF queueJobAccepts(j)
     THEN /\ queue' = queueJobInsert(j)
          /\ fresh' = fresh \cup {j}
          /\ accepted' = [accepted EXCEPT ![j] = @ + 1]
          /\ queueFlush(MapSeq(microtasks, LAMBDA t : EntryEnqueued(t, j)),
                        MapSeq(thenQ, LAMBDA t : EntryEnqueued(t, j)))
     ELSE UNCHANGED <<queue, fresh, isFlushPending, currentFlushPromise,
                      microtasks, thenQ, accepted>>
  /\ UNCHANGED <<flushIndex, isFlushing, pendingPostFlushCbs, activePostFlushCbs,
                 postFlushIndex, jobActive, callStack, thrown, region>>
  /\ UNCHANGED <<evars, dc>>

\* user code calls queueJob(j)
QueueJob(j) ==
  /\ SUserCtx
  /\ calls' = calls - 1
  /\ queueJobCall(j)

\* queue after invalidateJob(j)
invalidateJob(q, fi, j) ==
  LET i == indexOf(q, j) IN IF i > fi THEN RemoveAt(q, i) ELSE q

\* the entries of q the drain has not started
PendingPart(q) == SubSeq(q, FirstPending + 1, Len(q))

\* the entries after an occurrence of job j left the waiting jobs, which are
\* now q
GoneFrom(ts, q, j) ==
  IF Contains(q, j) THEN ts ELSE MapSeq(ts, LAMBDA t : EntryGone(t, j))

InvalidateJob(j) ==
  /\ SUserCtx
  /\ calls' = calls - 1
  /\ queue' = invalidateJob(queue, flushIndex, j)
  /\ fresh' = fresh \cap Elems(queue')
  /\ microtasks' = GoneFrom(microtasks, PendingPart(queue'), j)
  /\ thenQ' = GoneFrom(thenQ, PendingPart(queue'), j)
  /\ accepted' = IF queue' # queue THEN [accepted EXCEPT ![j] = @ - 1] ELSE accepted
  /\ UNCHANGED <<flushIndex, isFlushing, isFlushPending, pendingPostFlushCbs,
                 activePostFlushCbs, postFlushIndex, currentFlushPromise,
                 jobActive, callStack, thrown, region>>
  /\ UNCHANGED <<evars, dc>>

\* queuePostFlushCb(cb) with a single callback
queuePostFlushCbCall(cb) ==
  /\ pendingPostFlushCbs' =
       IF \/ activePostFlushCbs.isNull
          \/ ~includes(activePostFlushCbs.cbs, cb,
                       IF jobAllowRecurse(cb) THEN postFlushIndex + 1
                                              ELSE postFlushIndex)
       THEN Append(pendingPostFlushCbs, cb)
       ELSE pendingPostFlushCbs
  /\ queueFlush(microtasks, thenQ)
  /\ UNCHANGED <<queue, flushIndex, isFlushing, activePostFlushCbs, postFlushIndex,
                 jobActive, callStack, thrown, region, fresh>>
  /\ UNCHANGED <<evars, dc, accepted>>

\* user code calls queuePostFlushCb(cb)
QueuePostFlushCb(cb) ==
  /\ SUserCtx
  /\ calls' = calls - 1
  /\ queuePostFlushCbCall(cb)

\* queuePostFlushCb(cbs) with an array of callbacks
QueuePostFlushCbs(cbs) ==
  /\ SUserCtx
  /\ calls' = calls - 1
  /\ pendingPostFlushCbs' = pendingPostFlushCbs \o cbs
  /\ queueFlush(microtasks, thenQ)
  /\ UNCHANGED <<queue, flushIndex, isFlushing, activePostFlushCbs, postFlushIndex,
                 jobActive, callStack, thrown, region, fresh>>
  /\ UNCHANGED <<evars, dc, accepted>>

\* the promise nextTick chains fn on
nextTickPromise == IF currentFlushPromise # "null" THEN currentFlushPromise ELSE "resolved"

NextTick ==
  /\ SUserCtx
  /\ calls' = calls - 1
  /\ LET t == IF DrainInFlight
              THEN TickEntry("inflight",
                             {queue[k] : k \in (FirstPending + 1)..Len(queue)})
              ELSE TickEntry("idle", {})
         p == nextTickPromise
     IN /\ microtasks' = IF p = "resolved" THEN enqueueMicrotask(microtasks, t)
                                          ELSE microtasks
        /\ thenQ' = IF p = "pending" THEN Append(thenQ, t) ELSE thenQ
  /\ UNCHANGED <<queue, flushIndex, isFlushing, isFlushPending, pendingPostFlushCbs,
                 activePostFlushCbs, postFlushIndex, currentFlushPromise,
                 jobActive, callStack, thrown, region, fresh>>
  /\ UNCHANGED <<evars, dc, accepted>>

\* user code sets job.active = false (the component of the job was unmounted)
Deactivate(j) ==
  /\ SUserCtx
  /\ jobActive[j]
  /\ calls' = calls - 1
  /\ jobActive' = [jobActive EXCEPT ![j] = FALSE]
  /\ UNCHANGED <<queue, flushIndex, isFlushing, isFlushPending, pendingPostFlushCbs,
                 activePostFlushCbs, postFlushIndex, currentFlushPromise,
                 microtasks, thenQ, callStack, thrown, region, fresh>>
  /\ UNCHANGED <<evars, dc, accepted>>

\* flushPreFlushCbs() called by user code
CallFlushPreFlushCbs ==
  /\ SUserCtx
  /\ calls' = calls - 1
  /\ callStack' = Append(callStack, PreFrame(IF isFlushing THEN flushIndex + 1 ELSE 0))
  /\ UNCHANGED <<queue, flushIndex, isFlushing, isFlushPending, pendingPostFlushCbs,
                 activePostFlushCbs, postFlushIndex, currentFlushPromise,
                 jobActive, microtasks, thenQ, thrown, region, fresh>>
  /\ UNCHANGED <<evars, dc, accepted>>

\* flushPostFlushCbs up to its loop: the new activePostFlushCbs, and whether
\* this call runs the loop
postStart ==
  IF pendingPostFlushCbs = <<>>
  THEN [active |-> activePostFlushCbs, loop |-> FALSE]
  ELSE LET deduped == Dedupe(pendingPostFlushCbs)
       IN IF ~activePostFlushCbs.isNull
          THEN [active |-> [activePostFlushCbs EXCEPT !.cbs = @ \o deduped],
                loop |-> FALSE]
          ELSE [active |-> [isNull |-> FALSE, cbs |-> StableSort(deduped, FALSE)],
                loop |-> TRUE]

\* flushPostFlushCbs() called by user code
CallFlushPostFlushCbs ==
  /\ SUserCtx
  /\ calls' = calls - 1
  /\ pendingPostFlushCbs' = <<>>
  /\ activePostFlushCbs' = postStart.active
  /\ IF postStart.loop
     THEN /\ postFlushIndex' = 0
          /\ callStack' = Append(callStack, PostFrame(NoSeen, FALSE))
     ELSE UNCHANGED <<postFlushIndex, callStack>>
  /\ UNCHANGED <<queue, flushIndex, isFlushing, isFlushPending, currentFlushPromise,
                 jobActive, microtasks, thenQ, thrown, region, fresh>>
  /\ UNCHANGED <<evars, dc, accepted>>

(***************************************************************************)
(* flushJobs                                                               *)
(***************************************************************************)
\* a plausible slip: the finally block does not keep flushing
keepsFlushingNever(q, pend) == FALSE

\* the condition of the recursive flushJobs(seen) call
keepsFlushing(q, pend) == q # <<>> \/ pend # <<>>

\* the end of the finally block, after flushPostFlushCbs(seen) returned, with
\* queue q and pending callbacks pend: either the recursive call, which starts
\* the next pass, or the return of the outermost flushJobs, which fulfils the
\* promise of the drain
FlushTail(f, q, pend) ==
  /\ currentFlushPromise' = "null"
  /\ flushIndex' = 0
  /\ fresh' = {}
  /\ IF keepsFlushing(q, pend)
     THEN /\ isFlushPending' = FALSE
          /\ isFlushing' = TRUE
          /\ queue' = StableSort(q, TRUE)
          /\ callStack' = <<[f EXCEPT !.pass = @ + 1]>>
          /\ UNCHANGED <<microtasks, thenQ>>
     ELSE /\ isFlushing' = FALSE
          /\ queue' = q
          /\ callStack' = <<>>
          /\ microtasks' = MapSeq(microtasks \o thenQ,
                                  LAMBDA t : EntryClosed(EntryDrained(t, TRUE)))
          /\ thenQ' = <<>>
          /\ UNCHANGED isFlushPending

\* a plausible slip: the finally block leaves the jobs that ran in queue
queueLengthZeroSkipped(q) == q

\* queue.length = 0
queueLengthZero(q) == <<>>

\* the flushJobs microtask begins
FlushStart ==
  /\ callStack = <<>> /\ region = "micro"
  /\ microtasks # <<>> /\ Head(microtasks).fn = FlushJobsFn
  /\ microtasks' = MapSeq(Tail(microtasks), EntryFlushed)
  /\ thenQ' = MapSeq(thenQ, EntryFlushed)
  /\ isFlushPending' = FALSE
  /\ isFlushing' = TRUE
  /\ queue' = StableSort(queue, TRUE)
  /\ flushIndex' = 0
  /\ fresh' = {}
  /\ callStack' = <<FlushFrame>>
  /\ UNCHANGED <<pendingPostFlushCbs, activePostFlushCbs, postFlushIndex,
                 currentFlushPromise, jobActive, thrown, calls, region>>
  /\ UNCHANGED <<evars, dc, accepted>>

\* one iteration of the main loop, or the finally block up to the post-flush loop
FlushStep ==
  /\ ~thrown /\ STop.kind = "flush"
  /\ UNCHANGED <<jobActive, thrown, calls, region>>
  /\ UNCHANGED <<evars, dc>>
  /\ LET f == STop IN
     IF flushIndex < Len(queue)
     THEN LET job == queue[flushIndex + 1]
              later == SubSeq(queue, flushIndex + 2, Len(queue))
          IN /\ microtasks' = GoneFrom(microtasks, later, job)
             /\ thenQ' = GoneFrom(thenQ, later, job)
             /\ UNCHANGED <<queue, isFlushing, isFlushPending, pendingPostFlushCbs,
                            activePostFlushCbs, postFlushIndex,
                            currentFlushPromise, fresh>>
             /\ accepted' = [accepted EXCEPT ![job] = @ - 1]
             /\ IF jobActive[job] /\ ~checkSkips(f.seen, job)
                THEN /\ callStack' = <<[f EXCEPT !.seen = checkSeen(@, job),
                                                 !.ran = Append(@, job)],
                                       CallFrame(job, "job")>>
                     /\ UNCHANGED flushIndex
                ELSE /\ flushIndex' = flushIndex + 1
                     /\ UNCHANGED callStack
     ELSE /\ pendingPostFlushCbs' = <<>>
          /\ activePostFlushCbs' = postStart.active
          /\ UNCHANGED accepted
          /\ IF postStart.loop
             THEN /\ postFlushIndex' = 0
                  /\ flushIndex' = 0
                  /\ queue' = queueLengthZero(queue)
                  /\ fresh' = {}
                  /\ callStack' = <<f, PostFrame(f.seen, TRUE)>>
                  /\ UNCHANGED <<isFlushing, isFlushPending, currentFlushPromise,
                                 microtasks, thenQ>>
             ELSE /\ FlushTail(f, queueLengthZero(queue), <<>>)
                  /\ UNCHANGED postFlushIndex

\* one iteration of the loop of flushPostFlushCbs, or its end
PostStep ==
  /\ ~thrown /\ STop.kind = "post"
  /\ UNCHANGED <<jobActive, thrown, calls, region>>
  /\ UNCHANGED <<evars, dc, accepted>>
  /\ LET f == STop
         rest == Pop(callStack)
     IN IF postFlushIndex < Len(activePostFlushCbs.cbs)
        THEN LET cb == activePostFlushCbs.cbs[postFlushIndex + 1]
             IN /\ UNCHANGED <<queue, flushIndex, isFlushing, isFlushPending,
                               pendingPostFlushCbs, activePostFlushCbs,
                               currentFlushPromise, microtasks, thenQ, fresh>>
                /\ IF checkSkips(f.seen, cb)
                   THEN /\ postFlushIndex' = postFlushIndex + 1
                        /\ UNCHANGED callStack
                   ELSE /\ callStack' = rest \o <<[f EXCEPT !.seen = checkSeen(@, cb)],
                                                  CallFrame(cb, "post")>>
                        /\ UNCHANGED postFlushIndex
        ELSE /\ activePostFlushCbs' = [isNull |-> TRUE, cbs |-> <<>>]
             /\ postFlushIndex' = 0
             /\ UNCHANGED pendingPostFlushCbs
             /\ IF f.byFlush
                THEN FlushTail([rest[Len(rest)] EXCEPT !.seen = f.seen],
                               queue, pendingPostFlushCbs)
                ELSE /\ callStack' = rest
                     /\ UNCHANGED <<queue, flushIndex, isFlushing, isFlushPending,
                                    currentFlushPromise, microtasks, thenQ, fresh>>

\* one iteration of the loop of flushPreFlushCbs, or its end
PreStep ==
  /\ ~thrown /\ STop.kind = "pre"
  /\ UNCHANGED <<flushIndex, isFlushing, isFlushPending, pendingPostFlushCbs,
                 activePostFlushCbs, postFlushIndex, currentFlushPromise,
                 jobActive, thrown, calls, region>>
  /\ UNCHANGED <<evars, dc>>
  /\ LET f == STop
         rest == Pop(callStack)
     IN IF f.i < Len(queue)
        THEN LET cb == queue[f.i + 1]
             IN IF pre(cb) /\ ~checkSkips(f.seen, cb)
                THEN /\ queue' = RemoveAt(queue, f.i)
                     /\ accepted' = [accepted EXCEPT ![cb] = @ - 1]
                     /\ fresh' = fresh \cap Elems(queue')
                     /\ microtasks' = GoneFrom(microtasks, PendingPart(queue'), cb)
                     /\ thenQ' = GoneFrom(thenQ, PendingPart(queue'), cb)
                     /\ callStack' = rest \o <<[f EXCEPT !.seen = checkSeen(@, cb)],
                                               CallFrame(cb, "pre")>>
                ELSE /\ callStack' = Append(rest, [f EXCEPT !.i = @ + 1])
                     /\ UNCHANGED <<queue, fresh, microtasks, thenQ, accepted>>
        ELSE /\ callStack' = rest
             /\ UNCHANGED <<queue, fresh, microtasks, thenQ, accepted>>

(***************************************************************************)
(* Callables returning and raising; the host's event loop.                 *)
(***************************************************************************)
\* the loop counters after the callable on top of the stack came back to the
\* loop that invoked it
BackInLoop(rest) ==
  LET below == IF rest = <<>> THEN NoFrame ELSE rest[Len(rest)]
  IN /\ flushIndex' = IF below.kind = "flush" THEN flushIndex + 1 ELSE flushIndex
     /\ postFlushIndex' = IF below.kind = "post" THEN postFlushIndex + 1
                                                 ELSE postFlushIndex

\* the entries when callStack becomes rest: an empty stack ends the region
AtRegionEnd(ts, rest) == IF rest = <<>> /\ region = "micro" THEN MapSeq(ts, EntryClosed) ELSE ts

\* the callable on top of the stack returns
SReturn ==
  /\ ~thrown /\ STop.kind = "call"
  /\ callStack' = Pop(callStack)
  /\ BackInLoop(callStack')
  /\ microtasks' = AtRegionEnd(microtasks, callStack')
  /\ UNCHANGED <<queue, isFlushing, isFlushPending, pendingPostFlushCbs,
                 activePostFlushCbs, currentFlushPromise, jobActive, thenQ,
                 thrown, calls, region, fresh>>
  /\ UNCHANGED <<evars, dc, accepted>>

\* the callable on top of the stack raises; callWithErrorHandling catches what
\* a job of the main loop raises
SThrow ==
  /\ ~thrown /\ STop.kind = "call"
  /\ calls > 0
  /\ calls' = calls - 1
  /\ callStack' = Pop(callStack)
  /\ IF STop.role = "job"
     THEN /\ BackInLoop(callStack')
          /\ UNCHANGED thrown
     ELSE /\ thrown' = (callStack' # <<>>)
          /\ UNCHANGED <<flushIndex, postFlushIndex>>
  /\ microtasks' = AtRegionEnd(microtasks, callStack')
  /\ UNCHANGED <<queue, isFlushing, isFlushPending, pendingPostFlushCbs,
                 activePostFlushCbs, currentFlushPromise, jobActive, thenQ,
                 region, fresh>>
  /\ UNCHANGED <<evars, dc, accepted>>

\* the exception leaves a loop, or a callable that does not catch it; the
\* promise of a drain it leaves is rejected
SPropagate ==
  /\ thrown
  /\ callStack' = Pop(callStack)
  /\ UNCHANGED <<queue, isFlushing, isFlushPending, pendingPostFlushCbs,
                 activePostFlushCbs, jobActive, calls, region, fresh>>
  /\ UNCHANGED <<evars, dc, accepted>>
  /\ IF STop.kind = "call" /\ STop.role = "job"
     THEN /\ thrown' = FALSE
          /\ BackInLoop(callStack')
          /\ UNCHANGED <<currentFlushPromise, microtasks, thenQ>>
     ELSE /\ thrown' = (callStack' # <<>>)
          /\ UNCHANGED <<flushIndex, postFlushIndex>>
          /\ IF STop.kind = "flush"
             THEN /\ currentFlushPromise' =
                       IF currentFlushPromise = "pending" THEN "rejected"
                                                          ELSE currentFlushPromise
                  /\ thenQ' = <<>>
                  /\ microtasks' = MapSeq(microtasks,
                                          LAMBDA t : EntryClosed(EntryDrained(t, FALSE)))
             ELSE /\ microtasks' = AtRegionEnd(microtasks, callStack')
                  /\ UNCHANGED <<currentFlushPromise, thenQ>>

\* user code catches the exception of a call it made
SCatch ==
  /\ thrown /\ STop.kind = "call"
  /\ thrown' = FALSE
  /\ UNCHANGED <<queue, flushIndex, isFlushing, isFlushPending, pendingPostFlushCbs,
                 activePostFlushCbs, postFlushIndex, currentFlushPromise,
                 jobActive, microtasks, thenQ, callStack, calls, region, fresh>>
  /\ UNCHANGED <<evars, dc, accepted>>

\* the host's synchronous code ends: the microtask checkpoint begins
EndSync ==
  /\ callStack = <<>> /\ region = "sync"
  /\ region' = "micro"
  /\ microtasks' = MapSeq(microtasks, EntryClosed)
  /\ UNCHANGED <<queue, flushIndex, isFlushing, isFlushPending, pendingPostFlushCbs,
                 activePostFlushCbs, postFlushIndex, currentFlushPromise,
                 jobActive, thenQ, callStack, thrown, calls, fresh>>
  /\ UNCHANGED <<evars, dc, accepted>>

\* the microtask queue is empty: the host runs its next task
NewTask ==
  /\ callStack = <<>> /\ region = "micro" /\ microtasks = <<>>
  /\ calls > 0
  /\ region' = "sync"
  /\ UNCHANGED <<queue, flushIndex, isFlushing, isFlushPending, pendingPostFlushCbs,
                 activePostFlushCbs, postFlushIndex, currentFlushPromise,
                 jobActive, microtasks, thenQ, callStack, thrown, calls, fresh>>
  /\ UNCHANGED <<evars, dc, accepted>>

\* the microtask of a nextTick fn begins
TickStart ==
  /\ callStack = <<>> /\ region = "micro"
  /\ microtasks # <<>> /\ Head(microtasks).fn = TickFn
  /\ microtasks' = Tail(microtasks)
  /\ callStack' = <<TickFrame(Head(microtasks))>>
  /\ UNCHANGED <<queue, flushIndex, isFlushing, isFlushPending, pendingPostFlushCbs,
                 activePostFlushCbs, postFlushIndex, currentFlushPromise,
                 jobActive, thenQ, thrown, calls, region, fresh>>
  /\ UNCHANGED <<evars, dc, accepted>>

(***************************************************************************)
(* The scheduler as a state machine.                                       *)
(***************************************************************************)
NextS ==
  \/ \E j \in Jobs : QueueJob(j)
  \/ \E j \in Jobs : InvalidateJob(j)
  \/ \E cb \in PostCbs : QueuePostFlushCb(cb)
  \/ \E cbs \in PostBatches : QueuePostFlushCbs(cbs)
  \/ NextTick
  \/ \E j \in Jobs : Deactivate(j)
  \/ CallFlushPreFlushCbs
  \/ CallFlushPostFlushCbs
  \/ FlushStart
  \/ FlushStep
  \/ PostStep
  \/ PreStep
  \/ SReturn
  \/ SThrow
  \/ SPropagate
  \/ SCatch
  \/ EndSync
  \/ NewTask
  \/ TickStart

(***************************************************************************)
(* deferredComputed.  A reactive source src feeds the deferred computed D1 *)
(* (getter: src) and D1 feeds the deferred computed D2 (getter: 1 if       *)
(* D1.value >= 1, else 0).  Effect F1 reads D1.value and effect F2 reads   *)
(* D2.value; both have run, so every dep exists and every subscription is  *)
(* in place: the getters and the effects read the same refs in every run.  *)
(* dc holds                                                                *)
(*   src               the source value                                    *)
(*   value, dirty      _value and _dirty of each computed                  *)
(*   compareTarget, hasCompareTarget, scheduled   the constructor's locals *)
(*   queue, queued     the scheduler's queue and lock                      *)
(*   pos               the index of flush's loop, -1 when flush is not     *)
(*                     running                                             *)
(* and for the properties                                                  *)
(*   held              each computed's _value when the burst began         *)
(*   srcHeld           the source value when the burst began               *)
(*   notified          the computeds whose effect ran in the flush         *)
(*   last              the callback the flush has just run                 *)
(*   ops               writes and reads user code may still make           *)
(***************************************************************************)
Deferreds == {"D1", "D2"}
SrcValues == 0..2
NoCallback == [d |-> "none", recomputed |-> 0, triggered |-> FALSE]

\* the computeds whose effect is in d.dep
ChainedOn(d) == IF d = "D1" THEN {"D2"} ELSE {}

RECURSIVE get(_, _)
\* d._get(): the getter of D2 reads D1.value
get(s, d) ==
  IF ~s.dirty[d] THEN s
  ELSE LET s1 == [s EXCEPT !.dirty[d] = FALSE]
           s2 == IF d = "D2" THEN get(s1, "D1") ELSE s1
           v == IF d = "D1" THEN s2.src
                ELSE IF s2.value["D1"] >= 1 THEN 1 ELSE 0
       IN [s2 EXCEPT !.value[d] = v]

\* scheduler(fn) with fn the callback of d that compares with valueToCompare
schedule(s, d, valueToCompare) ==
  [s EXCEPT !.queue = Append(@, [d |-> d, valueToCompare |-> valueToCompare]),
            !.queued = TRUE]

RECURSIVE effectScheduler(_, _, _)
\* the scheduler of d.effect
effectScheduler(s, d, computedTrigger) ==
  LET s1 == IF computedTrigger
            THEN [s EXCEPT !.compareTarget[d] = s.value[d],
                           !.hasCompareTarget[d] = TRUE]
            ELSE IF ~s.scheduled[d]
            THEN LET valueToCompare == IF s.hasCompareTarget[d]
                                       THEN s.compareTarget[d] ELSE s.value[d]
                 IN schedule([s EXCEPT !.scheduled[d] = TRUE,
                                       !.hasCompareTarget[d] = FALSE],
                             d, valueToCompare)
            ELSE s
      s2 == IF ChainedOn(d) = {} THEN s1
            ELSE effectScheduler(s1, CHOOSE e \in ChainedOn(d) : TRUE, TRUE)
  IN [s2 EXCEPT !.dirty[d] = TRUE]

\* triggerRefValue(d): triggerEffects on d.dep, the computed's effect first,
\* then the effect that reads d.value
triggerRefValue(s, d) ==
  LET s1 == IF ChainedOn(d) = {} THEN s
            ELSE effectScheduler(s, CHOOSE e \in ChainedOn(d) : TRUE, FALSE)
      s2 == get(s1, d)
  IN [s2 EXCEPT !.notified = @ \cup {d}]

\* the callback that effectScheduler queued
flushCallback(s, cb) ==
  LET s1 == get(s, cb.d)
      differs == s1.value[cb.d] # cb.valueToCompare
      s2 == IF differs THEN triggerRefValue(s1, cb.d) ELSE s1
  IN [s2 EXCEPT !.scheduled[cb.d] = FALSE,
                !.last = [d |-> cb.d, recomputed |-> s1.value[cb.d],
                          triggered |-> differs]]

\* user code writes v to the source: trigger runs the scheduler of D1.effect
SetSource(v) ==
  /\ dc.pos = -1 /\ dc.ops > 0
  /\ v \in SrcValues /\ v # dc.src
  /\ LET s0 == IF dc.queued THEN dc
               ELSE [dc EXCEPT !.held = dc.value, !.srcHeld = dc.src,
                               !.notified = {}]
         s1 == effectScheduler([s0 EXCEPT !.src = v], "D1", FALSE)
     IN dc' = [s1 EXCEPT !.ops = @ - 1, !.last = NoCallback]
  /\ UNCHANGED <<evars, svars>>

\* user code reads d.value outside any effect
ReadValue(d) ==
  /\ dc.pos = -1 /\ dc.ops > 0
  /\ dc' = [get(dc, d) EXCEPT !.ops = @ - 1, !.last = NoCallback]
  /\ UNCHANGED <<evars, svars>>

\* the microtask of tick.then(flush) begins
DeferredFlushStart ==
  /\ dc.pos = -1 /\ dc.queued
  /\ dc' = [dc EXCEPT !.pos = 0, !.last = NoCallback]
  /\ UNCHANGED <<evars, svars>>

\* one iteration of the loop of flush, or its end
DeferredFlushStep ==
  /\ dc.pos >= 0
  /\ dc' = IF dc.pos < Len(dc.queue)
           THEN [flushCallback(dc, dc.queue[dc.pos + 1]) EXCEPT !.pos = dc.pos + 1]
           ELSE [dc EXCEPT !.queue = <<>>, !.queued = FALSE, !.pos = -1,
                           !.last = NoCallback]
  /\ UNCHANGED <<evars, svars>>

\* F1 and F2 have run once with the source at 0
InitDc ==
  dc = [src |-> 0,
        value |-> [d \in Deferreds |-> 0],
        dirty |-> [d \in Deferreds |-> FALSE],
        compareTarget |-> [d \in Deferreds |-> 0],
        hasCompareTarget |-> [d \in Deferreds |-> FALSE],
        scheduled |-> [d \in Deferreds |-> FALSE],
        queue |-> <<>>, queued |-> FALSE, pos |-> -1,
        held |-> [d \in Deferreds |-> 0], srcHeld |-> 0,
        notified |-> {}, last |-> NoCallback, ops |-> MaxBurstOps]

NextD ==
  \/ \E v \in SrcValues : SetSource(v)
  \/ \E d \in Deferreds : ReadValue(d)
  \/ DeferredFlushStart
  \/ DeferredFlushStep

InitEffect == InitE /\ targetKind = "object" /\ InitS /\ InitDc

\* the reactivity core on a target of any kind
InitKinds ==
  /\ InitHeap
  /\ effectTrackDepth = 0
  /\ trackOpBit = 1
  /\ ops = MaxKindOps
  /\ targetKind \in TargetKinds
  /\ InitS
  /\ InitDc

SpecKinds == InitKinds /\ [][NextE]_vars

\* The reactivity core at the marker depth: effect E1 is running at depth
\* maxMarkerBits, inside runs of effects that are not among Effects and do not
\* touch the target (activeEffect = NoEffect stands for them).  Earlier runs
\* have subscribed the effects of `subscribed` to slot "a"; the run of E1 has
\* marked its Deps on entry.
InitDeep ==
  \E subscribed \in SUBSET {"E1", "E2"} :
    /\ active = [e \in Effects |-> TRUE]
    /\ deps = [e \in Effects |-> IF e \in subscribed THEN <<"a">> ELSE <<>>]
    /\ parent = [e \in Effects |-> NoEffect]
    /\ deferStop = [e \in Effects |-> FALSE]
    /\ onStopCalls = [e \in Effects |-> 0]
    /\ depsMap = IF subscribed = {} THEN <<>> ELSE <<"a">>
    /\ members = [k \in AllKeys |->
                    IF k = "a"
                    THEN SelectSeq(<<"E1", "E2", "E3">>, LAMBDA e : e \in subscribed)
                    ELSE <<>>]
    /\ w = [k \in AllKeys |->
              IF k = "a" /\ "E1" \in subscribed THEN Shl1(maxMarkerBits) ELSE 0]
    /\ n = [k \in AllKeys |-> 0]
    /\ activeEffect = "E1"
    /\ shouldTrack = TRUE
    /\ trackStack = <<>>
    /\ effectTrackDepth = maxMarkerBits
    /\ trackOpBit = Shl1(maxMarkerBits)
    /\ stack = <<[kind |-> "fn", e |-> "E1", tracked |-> TRUE,
                  lastShouldTrack |-> TRUE, via |-> "direct", effects |-> <<>>,
                  pass |-> 0, idx |-> 0, fired |-> <<>>, stoppedAtStart |-> {},
                  op |-> NoOp,
                  before |-> [activeEffect |-> NoEffect, shouldTrack |-> TRUE,
                              effectTrackDepth |-> maxMarkerBits - 1,
                              trackOpBit |-> Shl1(maxMarkerBits - 1)],
                  had |-> IF "E1" \in subscribed THEN {"a"} ELSE {},
                  read |-> {}, selfStop |-> FALSE]>>
    /\ exc = FALSE
    /\ trackSeq = IdleSeq
    /\ lastRun = NoRun
    /\ ops = MaxDeepOps
    /\ targetKind = "object"
    /\ InitS
    /\ InitDc

SpecDeep == InitDeep /\ [][NextE]_vars

\* The reactivity core after first runs: earlier runs, which have returned,
\* have subscribed the effects of `subscribed` to slot "a".
InitResub ==
  \E subscribed \in SUBSET {"E2"} :
    /\ active = [e \in Effects |-> TRUE]
    /\ deps = [e \in Effects |-> IF e \in subscribed THEN <<"a">> ELSE <<>>]
    /\ parent = [e \in Effects |-> NoEffect]
    /\ deferStop = [e \in Effects |-> FALSE]
    /\ onStopCalls = [e \in Effects |-> 0]
    /\ depsMap = IF subscribed = {} THEN <<>> ELSE <<"a">>
    /\ members = [k \in AllKeys |->
                    IF k = "a"
                    THEN SelectSeq(<<"E1", "E2", "E3">>, LAMBDA e : e \in subscribed)
                    ELSE <<>>]
    /\ w = [k \in AllKeys |-> 0]
    /\ n = [k \in AllKeys |-> 0]
    /\ activeEffect = NoEffect
    /\ shouldTrack = TRUE
    /\ trackStack = <<>>
    /\ effectTrackDepth = 0
    /\ trackOpBit = 1
    /\ stack = <<>>
    /\ exc = FALSE
    /\ trackSeq = IdleSeq
    /\ lastRun = NoRun
    /\ ops = MaxResubOps
    /\ targetKind = "object"
    /\ InitS
    /\ InitDc

SpecResub == InitResub /\ [][NextE]_vars

SpecEffect == InitEffect /\ [][NextE]_vars

InitSched == InitS /\ InitE /\ targetKind = "object" /\ InitDc

SpecDeferred == InitSched /\ [][NextD]_vars

SpecSched == InitSched /\ [][NextS]_vars

(***************************************************************************)
(* The scheduler with a job that triggers itself: job J2 (allowRecurse)    *)
(* may call queueJob on itself, or queuePostFlushCb(P2), every time it     *)
(* runs, and callback P2 (allowRecurse) may call queuePostFlushCb on       *)
(* itself every time it runs; P2 is queued while it is not pending.  The   *)
(* host calls queueJob(J2).                                                *)
(***************************************************************************)
RecursiveJob == "J2"
RecursiveCb == "P2"

\* callable f is running and has control
Running(f) == ~thrown /\ STop.kind = "call" /\ STop.fn = f

HostQueuesJob ==
  /\ callStack = <<>> /\ region = "sync" /\ ~thrown
  /\ queueJobCall(RecursiveJob)
  /\ UNCHANGED calls

JobRequeuesItself ==
  /\ Running(RecursiveJob)
  /\ queueJobCall(RecursiveJob)
  /\ UNCHANGED calls

JobQueuesCb ==
  /\ Running(RecursiveJob)
  /\ ~Contains(pendingPostFlushCbs, RecursiveCb)
  /\ queuePostFlushCbCall(RecursiveCb)
  /\ UNCHANGED calls

CbRequeuesItself ==
  /\ Running(RecursiveCb)
  /\ ~Contains(pendingPostFlushCbs, RecursiveCb)
  /\ queuePostFlushCbCall(RecursiveCb)
  /\ UNCHANGED calls

NextR ==
  \/ HostQueuesJob
  \/ JobRequeuesItself
  \/ JobQueuesCb
  \/ CbRequeuesItself
  \/ FlushStart
  \/ FlushStep
  \/ PostStep
  \/ SReturn
  \/ EndSync
  \/ NewTask

\* a microtask that has begun runs to completion, and the host goes on
SpecRecurse == InitSched /\ [][NextR]_vars /\ WF_vars(NextR)

(***************************************************************************)
(* Properties of the reactivity core.                                      *)
(***************************************************************************)

\* C1: whenever no effect is running, for every Dep D of targetMap and every
\* effect E, E is a member of D exactly if D is in E.deps, and D occurs in
\* E.deps at most once.
SubscriptionSymmetry ==
  (stack = <<>>) =>
     \A k \in AllKeys, e \in Effects :
        /\ Contains(members[k], e) <=> Contains(deps[e], k)
        /\ Count(deps[e], k) <= 1

\* C1 witness: at rest after a nested run in which an effect was stopped from
\* inside a nested effect and subscribed again afterwards.
SubscriptionSymmetryWitness ==
  /\ stack = <<>>
  /\ \E e \in Effects : ~active[e] /\ deps[e] # <<>>
  /\ \E e \in Effects : active[e] /\ deps[e] # <<>>

\* C4 (as claimed): an effect that was stopped (stop() has run its cleanup and
\* set active = false) before a trigger began is not invoked, neither its fn
\* nor its scheduler, by that trigger.
StoppedEffectNeverTriggered ==
  \A i \in 1..(Len(stack) - 1) :
     (stack[i].kind = "trig" /\ stack[i + 1].via = "trigger")
        => stack[i + 1].e \notin stack[i].stoppedAtStart

\* C8 (as claimed): after pauseTracking(); enableTracking(); resetTracking()
\* shouldTrack has the value it had before the sequence.
TrackingRoundTrip ==
  trackSeq.stage = 3 => shouldTrack = trackSeq.prior

\* C8 (amended): after pauseTracking(); enableTracking(); resetTracking()
\* shouldTrack is false and the prior value is still saved on top of
\* trackStack; one more resetTracking() restores shouldTrack to its prior value
\* and trackStack to its prior length.
TrackingRoundTripBalanced ==
  /\ trackSeq.stage = 3 =>
        /\ shouldTrack = FALSE
        /\ Len(trackStack) = trackSeq.depth + 1
        /\ trackStack[Len(trackStack)] = trackSeq.prior
  /\ trackSeq.stage = 4 =>
        /\ shouldTrack = trackSeq.prior
        /\ Len(trackStack) = trackSeq.depth

\* C8 witness: the sequence and the balancing reset have run from a state in
\* which tracking was on.
TrackingRoundTripWitness ==
  trackSeq.stage = 4 /\ trackSeq.prior /\ shouldTrack

\* C9: in every triggerEffects call the effects handed to triggerEffect are
\* all the computed-backed effects of the Dep first, then the others.
ComputedFirstDispatch ==
  \A i \in 1..Len(stack) :
     stack[i].kind = "trig" =>
        LET f == stack[i]
            nonComputedFired == \E a \in 1..Len(f.fired) : ~computed(f.fired[a])
        IN /\ \A a, b \in 1..Len(f.fired) :
                 (a < b /\ computed(f.fired[b])) => computed(f.fired[a])
           /\ (f.pass = 2 \/ nonComputedFired) =>
                 \A a \in 1..Len(f.effects) :
                    computed(f.effects[a]) => Contains(f.fired, f.effects[a])

\* C9 witness: a Dep whose first member is not computed-backed; its computed
\* member has been fired and returned, and a non-computed member is running.
ComputedFirstDispatchWitness ==
  \E i \in 1..(Len(stack) - 1) :
     /\ stack[i].kind = "trig"
     /\ ~computed(stack[i].effects[1])
     /\ Len(stack[i].fired) >= 2
     /\ computed(stack[i].fired[1])
     /\ stack[i + 1].kind = "fn" /\ ~computed(stack[i + 1].e)

(***************************************************************************)
(* Properties of the scheduler.                                            *)
(***************************************************************************)
\* the frames of flushJobs on the stack
FlushFrames == {k \in 1..Len(callStack) : callStack[k].kind = "flush"}

\* the frames of running nextTick fns
TickFrames(reg) ==
  {k \in 1..Len(callStack) : callStack[k].role = "tick" /\ callStack[k].tick.reg = reg}

\* a sorts strictly before b: smaller id, or pre before non-pre at equal id
SortsBefore(a, b) ==
  /\ hasId(a) /\ hasId(b)
  /\ \/ idOf(a) < idOf(b)
     \/ idOf(a) = idOf(b) /\ pre(a) /\ ~pre(b)

\* the main loop of flushJobs invokes the job at flushIndex
JobStarts ==
  /\ STop.kind = "flush"
  /\ Len(callStack') = Len(callStack) + 1
  /\ callStack'[Len(callStack')].role = "job"

\* the post-flush loop started by flushJobs invokes a callback
DrainPostStarts ==
  /\ STop.kind = "post" /\ STop.byFlush
  /\ Len(callStack') = Len(callStack) + 1
  /\ callStack'[Len(callStack')].role = "post"

QueueJobIdempotent ==
  [][\A j \in Jobs : (QueueJob(j) /\ Pending(queue, j)) => queue' = queue]_vars

\* C5 as claimed: invalidateJob(j) removes a job j that is in queue and has not
\* started running, and leaves queue unchanged otherwise.
InvalidateJobCancels ==
  [][\A j \in Jobs :
        InvalidateJob(j) => IF Pending(queue, j) THEN ~Pending(queue', j)
                                                 ELSE queue' = queue]_vars

Dispatched(type, key, newValue) ==
  IF Len(stack') = Len(stack) + 1 THEN Elems(stack'[Len(stack')].effects) ELSE {}

\* the effects subscribed to one of the slots
Subscribers(slots) == {e \in Effects : \E k \in slots : Contains(members[k], e)}

\* the slots of a sequence that truncation to length k invalidates
TruncatedSlots(k) == {"length"} \cup {x \in AllKeys : KeyNumber(x) >= k}

\* the slots the rules select, the truncation of a sequence apart
RuleSlots(type, key) ==
  IF type = "clear" THEN AllKeys
  ELSE ({key} \ {Undefined})
       \cup (IF type \in {"add", "delete"} /\ ~isArray THEN {ITERATE_KEY} ELSE {})
       \cup (IF type \in {"add", "delete"} /\ isMap THEN {MAP_KEY_ITERATE_KEY} ELSE {})
       \cup (IF type = "add" /\ isArray /\ isIntegerKey(key) THEN {"length"} ELSE {})
       \cup (IF type = "set" /\ isMap THEN {ITERATE_KEY} ELSE {})

\* no element occurs twice
NoDuplicates(seq) == \A a, b \in 1..Len(seq) : a # b => seq[a] # seq[b]

\* C11: trigger(SET, "length", k) on a sequence hands to triggerEffects exactly
\* the effects subscribed to "length" or to an index >= k.
TruncationFiresTail ==
  [][\A k \in 0..1 :
        (isArray /\ Trigger("set", "length", k))
           => Dispatched("set", "length", k) = Subscribers(TruncatedSlots(k))]_vars

\* truncation to 1 fires a subscriber of index 1 and spares a subscriber of
\* index 0 only
TruncationFiresTailWitness ==
  /\ Top.kind = "trig" /\ Top.op = <<"set", "length", 1>>
  /\ Top.pass = 1 /\ Top.idx = 1
  /\ \E e \in Effects : deps[e] = <<"0">> /\ ~Contains(Top.effects, e)
  /\ \E e \in Effects : deps[e] = <<"1">> /\ Contains(Top.effects, e)

\* C12 as claimed: every trigger call hands to triggerEffects the effects of
\* the Deps the listed rules select (CLEAR: all; otherwise the key's Dep plus
\* the iteration and length Deps), each effect once.
TriggerSelection ==
  [][/\ \A type \in TriggerOpTypes, key \in AllKeys \cup {Undefined}, k \in 0..1 :
          Trigger(type, key, k)
             => /\ Dispatched(type, key, k) = Subscribers(RuleSlots(type, key))
                /\ Len(stack') > Len(stack) => NoDuplicates(stack'[Len(stack')].effects)
     /\ TriggerStep => \A i \in 1..Len(stack') : NoDuplicates(stack'[i].fired)]_vars

\* C12 amended: the same, with the truncation rule for SET of "length" on a
\* sequence.
TriggerSelectionWithTruncation ==
  [][/\ \A type \in TriggerOpTypes, key \in AllKeys \cup {Undefined}, k \in 0..1 :
          Trigger(type, key, k)
             => /\ Dispatched(type, key, k) =
                     Subscribers(IF isArray /\ key = "length" THEN TruncatedSlots(k)
                                 ELSE RuleSlots(type, key))
                /\ Len(stack') > Len(stack) => NoDuplicates(stack'[Len(stack')].effects)
     /\ TriggerStep => \A i \in 1..Len(stack') : NoDuplicates(stack'[i].fired)]_vars

\* an ADD on a keyed collection dispatches an effect that is in two of the
\* selected Deps, and has fired it
TriggerSelectionWitness ==
  /\ isMap
  /\ Top.kind = "trig" /\ Top.op[1] = "add"
  /\ \E e \in Effects :
        /\ Contains(members["a"], e) /\ Contains(members[ITERATE_KEY], e)
        /\ Contains(Top.fired, e)

(***************************************************************************)
(* Properties of failures.                                                 *)
(***************************************************************************)
\* a callable that the drain invoked raises: a queued job of the main loop, or
\* a callback of the post-flush loop that flushJobs started
DrainCallableRaises ==
  /\ SThrow \/ SPropagate
  /\ STop.kind = "call"
  /\ \/ STop.role = "job"
     \/ /\ STop.role = "post"
        /\ Len(callStack) > 1
        /\ callStack[Len(callStack) - 1].byFlush

\* the scheduler is idle
SchedulerIdle ==
  /\ queue = <<>> /\ flushIndex = 0
  /\ ~isFlushing /\ activePostFlushCbs.isNull

\* C13: when a callable invoked by the drain raises, the drain goes on with its
\* loop, and the drain ends idle, so that a later queueJob schedules a drain.
DrainSurvivesFailure ==
  [][/\ DrainCallableRaises
          => /\ ~thrown'
             /\ callStack' = Pop(callStack)
     /\ (Flushing /\ ~Flushing') => SchedulerIdle'
     /\ \A j \in Jobs :
           (QueueJob(j) /\ ~Flushing /\ queue' # queue) => isFlushPending']_vars

\* C14: when fn raised inside a run() that installed its effect, the exception
\* reaches the caller, and then activeEffect, shouldTrack, effectTrackDepth and
\* trackOpBit are what they were before that run() began, the effect has no
\* parent, and no Dep in its deps carries a marker bit of the run's depth.
FailedRunRestoresGlobals ==
  (lastRun.e # NoEffect /\ lastRun.raised)
     => /\ exc = (stack # <<>>)
        /\ Globals = lastRun.before
        /\ parent[lastRun.e] = NoEffect
        /\ \A dep \in Elems(deps[lastRun.e]) :
              /\ ~BitSet(w[dep], lastRun.bit)
              /\ ~BitSet(n[dep], lastRun.bit)

\* the fn of a nested effect that subscribed to a Dep has raised, and the
\* exception is in the fn of the enclosing effect, which had paused tracking
FailedRunRestoresGlobalsWitness ==
  /\ lastRun.e # NoEffect /\ lastRun.raised
  /\ lastRun.depth = 2
  /\ deps[lastRun.e] # <<>>
  /\ exc /\ Top.kind = "fn" /\ Top.tracked
  /\ ~lastRun.before.shouldTrack

(***************************************************************************)
(* Properties of the marker bits and of re-subscription.                   *)
(***************************************************************************)
\* C19: after a run() returns, every Dep it marked (by initDepMarkers at its
\* start, or by trackEffects) has the w and n bits of the run's depth clear;
\* and when no effect is running every Dep has w = 0 and n = 0.
MarkersCleanAtRest ==
  /\ lastRun.e # NoEffect
        => \A dep \in lastRun.had \cup lastRun.read :
              /\ ~BitSet(w[dep], lastRun.bit)
              /\ ~BitSet(n[dep], lastRun.bit)
  /\ effectTrackDepth = 0
        => \A dep \in AllKeys : w[dep] = 0 /\ n[dep] = 0

\* C16: after a run() of an effect E that is active returns, in bit-marker
\* mode, E.deps holds exactly the Deps of the slots for which track was called
\* during that run while E was the active effect and shouldTrack was true,
\* each once, whatever ran or was stopped earlier.
ExactResubscription ==
  (lastRun.e # NoEffect /\ active[lastRun.e] /\ lastRun.depth <= maxMarkerBits)
     => /\ Elems(deps[lastRun.e]) = lastRun.read
        /\ NoDuplicates(deps[lastRun.e])

(***************************************************************************)
(* Properties of stop.                                                     *)
(***************************************************************************)
\* stop() is called on e while e is the active effect and is active
SelfStop(e) == Stop(e) /\ activeEffect = e /\ active[e]

\* e called stop() on itself in its current run and has not been stopped
SelfStopPending(e) == deferStop[e] /\ active[e]

\* e is unsubscribed and stopped, its onStop hook invoked once
StoppedClean(e) ==
  /\ ~active[e]
  /\ deps[e] = <<>>
  /\ \A dep \in AllKeys : ~Contains(members[dep], e)
  /\ onStopCalls[e] = 1

NoMarks == [k \in AllKeys |-> 0]

\* the heap in which e is subscribed to the slots of had and no Dep is marked
Rewound(e, had) ==
  LET out == cleanupEffect(H, e)
  IN [out EXCEPT !.deps = [out.deps EXCEPT ![e] =
                             SelectSeq(depsMap, LAMBDA k : k \in had)],
                 !.members = [k \in AllKeys |->
                                IF k \in had THEN Append(out.members[k], e)
                                ELSE out.members[k]],
                 !.w = NoMarks, !.n = NoMarks]

RECURSIVE trackAll(_, _, _, _)
\* trackEffects in bit-marker mode, with marker bit `bit`, for every key
trackAll(h, e, bit, keys) ==
  IF keys = {} THEN h
  ELSE LET k == CHOOSE x \in keys : TRUE
       IN trackAll(trackEffects(h, k, e, 1, bit), e, bit, keys \ {k})

\* what the bit-marker algorithm makes of a run of e that was subscribed to
\* had and reads the slots of read
MarkerRun(e, had, read) ==
  LET bit == Shl1(1)
  IN finalizeDepMarkers(trackAll(initDepMarkers(Rewound(e, had), e, bit),
                                 e, bit, read),
                        e, bit)

\* the effect whose run a step enters, tracks for, or leaves
Concerned ==
  IF effectTrackDepth' > effectTrackDepth THEN activeEffect' ELSE activeEffect

\* the run() just left, beyond maxMarkerBits, has given its effect the deps
\* and the membership that the bit-marker algorithm produces
FullCleanupExact ==
  (lastRun.e # NoEffect /\ lastRun.depth > maxMarkerBits /\ active[lastRun.e])
     => LET e == lastRun.e
            m == MarkerRun(e, lastRun.had, lastRun.read)
        IN /\ Elems(deps[e]) = Elems(m.deps[e])
           /\ Elems(deps[e]) = lastRun.read
           /\ NoDuplicates(deps[e])
           /\ \A k \in AllKeys :
                 Contains(members[k], e) <=> Contains(m.members[k], e)

\* a step of a run beyond maxMarkerBits, other than a call of stop(), changes
\* no marker bit and no subscription of another effect
FullCleanupConfined ==
  ((effectTrackDepth > maxMarkerBits \/ effectTrackDepth' > maxMarkerBits)
      /\ ~\E e \in Effects : Stop(e))
     => /\ UNCHANGED <<w, n>>
        /\ \A x \in Effects \ {Concerned} :
              /\ deps'[x] = deps[x]
              /\ \A k \in AllKeys :
                    Contains(members'[k], x) <=> Contains(members[k], x)

\* C18: after a run() at a depth beyond maxMarkerBits returns, the deps of its
\* effect and its membership in the Deps are what the bit-marker algorithm
\* produces for the same reads, namely the slots read in that run, each once;
\* and the run disturbs no marker bit and no subscription of another effect.
FullCleanupEquivalent == []FullCleanupExact /\ [][FullCleanupConfined]_vars

\* a run beyond the marker depth has dropped a slot it did not read again and
\* subscribed to one it read, while the enclosing effect's Dep stays marked
FullCleanupEquivalentWitness ==
  /\ lastRun.e # NoEffect /\ lastRun.depth > maxMarkerBits
  /\ active[lastRun.e]
  /\ lastRun.had \ lastRun.read # {}
  /\ lastRun.read # {}
  /\ Top.kind = "fn" /\ Top.tracked /\ effectTrackDepth = maxMarkerBits
  /\ \E dep \in Elems(deps[Top.e]) : BitSet(w[dep], trackOpBit)

(***************************************************************************)
(* Properties of the recursion limit.                                      *)
(***************************************************************************)
\* the body of flushJobs
DrainFrame == callStack[1]

\* the main loop is at a job that it neither skips as inactive nor has started
AtJob(j) ==
  /\ ~thrown /\ STop.kind = "flush"
  /\ flushIndex < Len(queue) /\ queue[flushIndex + 1] = j
  /\ jobActive[j]

\* the post-flush loop of the drain is at a callback that it has not started
AtCb(cb) ==
  /\ ~thrown /\ STop.kind = "post" /\ STop.byFlush
  /\ postFlushIndex < Len(activePostFlushCbs.cbs)
  /\ activePostFlushCbs.cbs[postFlushIndex + 1] = cb

\* one drain invokes the recursive job, and the recursive callback, at most
\* RECURSION_LIMIT + 1 times
InvocationsBounded ==
  Flushing => /\ Count(DrainFrame.ran, RecursiveJob) <= RECURSION_LIMIT + 1
              /\ \A k \in 1..Len(callStack) :
                    callStack[k].seen[RecursiveCb] <= RECURSION_LIMIT + 1

\* a loop of the drain skips a callable whose count exceeds RECURSION_LIMIT
\* without raising, and invokes it otherwise; a recursive pass starts with the
\* counts the pass before ended with
LimitSkips ==
  /\ (FlushStep /\ AtJob(RecursiveJob))
        => IF DrainFrame.seen[RecursiveJob] > RECURSION_LIMIT
           THEN /\ ~thrown' /\ callStack' = callStack
                /\ flushIndex' = flushIndex + 1
           ELSE /\ Running(RecursiveJob)'
                /\ DrainFrame'.seen[RecursiveJob] = DrainFrame.seen[RecursiveJob] + 1
  /\ (PostStep /\ AtCb(RecursiveCb))
        => IF STop.seen[RecursiveCb] > RECURSION_LIMIT
           THEN /\ ~thrown' /\ callStack' = callStack
                /\ postFlushIndex' = postFlushIndex + 1
           ELSE /\ Running(RecursiveCb)'
                /\ callStack'[2].seen[RecursiveCb] = STop.seen[RecursiveCb] + 1
  /\ (Flushing /\ Flushing' /\ DrainFrame'.pass > DrainFrame.pass)
        => /\ STop.kind = "post"
           /\ DrainFrame'.seen = STop.seen
           /\ \A f \in Callables : DrainFrame'.seen[f] >= DrainFrame.seen[f]

\* C15: in dev mode a drain invokes a job that re-enqueues itself at most
\* RECURSION_LIMIT + 1 times: once its count exceeds RECURSION_LIMIT the job is
\* skipped, not thrown; the counts are carried into the recursive passes; and
\* the drain ends, with the queue empty.
RecursionLimitEndsDrain ==
  /\ []InvocationsBounded
  /\ [][LimitSkips]_vars
  /\ isFlushing ~> (~isFlushing /\ queue = <<>> /\ callStack = <<>>)

\* the drain has invoked the job RECURSION_LIMIT + 1 times in its first pass,
\* and in a recursive pass its post-flush loop has skipped the callback
RecursionLimitEndsDrainWitness ==
  /\ STop.kind = "post" /\ STop.byFlush
  /\ Count(DrainFrame.ran, RecursiveJob) = RECURSION_LIMIT + 1
  /\ DrainFrame.pass > RECURSION_LIMIT
  /\ STop.seen[RecursiveCb] > RECURSION_LIMIT
  /\ activePostFlushCbs.cbs = <<RecursiveCb>> /\ postFlushIndex = 1

(***************************************************************************)
(* Properties of deferredComputed.                                         *)
(***************************************************************************)
\* the callbacks of d that flush has not run
ScheduledCallbacks(d) ==
  {k \in 1..Len(dc.queue) : k > dc.pos /\ dc.queue[k].d = d}

\* C17: the callback of a deferred computed d calls triggerRefValue(d) exactly
\* if d's recomputed value differs from the value d held before the burst; a
\* burst that ends at the source's original value notifies no effect; and at
\* most one callback per d is scheduled at a time.
DeferredSuppression ==
  /\ dc.last.d # "none"
        => (dc.last.triggered <=> dc.last.recomputed # dc.held[dc.last.d])
  /\ (dc.pos >= 0 /\ dc.src = dc.srcHeld) => dc.notified = {}
  /\ \A d \in Deferreds : Cardinality(ScheduledCallbacks(d)) <= 1

(***************************************************************************)
(* Properties of the chain of running effects.                             *)
(***************************************************************************)
RECURSIVE ActiveChain(_, _)
\* the chain p, p.parent, p.parent.parent, ... cut after fuel effects
ActiveChain(p, fuel) ==
  IF p = NoEffect \/ fuel = 0 THEN <<>>
  ELSE <<p>> \o ActiveChain(parent[p], fuel - 1)

\* the chain of activeEffect ends, holds no effect twice, and is the runs
\* that have not returned, innermost first
ChainWellFormed ==
  LET c == ActiveChain(activeEffect, Cardinality(Effects) + 1)
      running == SelectSeq(stack, LAMBDA f : f.kind = "fn" /\ f.tracked)
  IN /\ Len(c) <= Cardinality(Effects)
     /\ NoDuplicates(c)
     /\ Len(c) = Len(running)
     /\ \A k \in 1..Len(c) : c[k] = running[Len(running) + 1 - k].e

\* triggerEffect has just called run() of an effect on the chain of
\* activeEffect, and run() has called its fn
NestedStart ==
  /\ Top.kind = "fn" /\ Top.via = "trigger"
  /\ ~scheduler(Top.e)
  /\ \E k \in 1..(Len(stack) - 1) :
        stack[k].kind = "fn" /\ stack[k].tracked /\ stack[k].e = Top.e

\* C21: the chain activeEffect -> parent -> ... is finite, acyclic and holds
\* each effect at most once, and a trigger that reaches an effect without
\* scheduler that is on this chain does not start a nested execution of the
\* effect's fn.
NoReentrantActivation == ChainWellFormed /\ ~NestedStart

(***************************************************************************)
(* Properties of the drain as a whole.                                     *)
(***************************************************************************)
\* the flushJobs microtasks that have not begun
ScheduledDrains(mt) == Cardinality({k \in 1..Len(mt) : mt[k].fn = FlushJobsFn})

\* at most one drain is scheduled or executing, and the two flags exclude
\* each other
OneDrain ==
  /\ ScheduledDrains(microtasks) + (IF Flushing THEN 1 ELSE 0) <= 1
  /\ ~(isFlushing /\ isFlushPending)

\* no step schedules a drain while one is pending or running
NoSecondDrain ==
  (isFlushPending \/ isFlushing)
    => ScheduledDrains(microtasks') <= ScheduledDrains(microtasks)

\* C22: at most one flushJobs continuation is scheduled or executing at any
\* time: queueJob and queuePostFlushCb schedule no second drain while
\* isFlushPending or isFlushing is true, and the two flags are never both true.
SingleDrain == []OneDrain /\ [][NoSecondDrain]_vars

\* queueJob was accepted while the drain was running, and queuePostFlushCb was
\* called, and no drain is scheduled beside the running one
SingleDrainWitness ==
  /\ isFlushing /\ Flushing
  /\ fresh # {}
  /\ pendingPostFlushCbs # <<>>
  /\ ScheduledDrains(microtasks) = 0

(***************************************************************************)
(* Properties of the order of queue.                                       *)
(***************************************************************************)
\* the main loop of flushJobs is about to read queue[flushIndex]
LoopReads == ~thrown /\ STop.kind = "flush" /\ flushIndex < Len(queue)

\* C23: every time the drain loop reads queue[flushIndex], the entries of
\* queue from flushIndex to the end are in comparator order: ascending id with
\* absent id last, pre before non-pre at equal id.
QueueSortedForLoop ==
  LoopReads =>
    \A a, b \in (flushIndex + 1)..Len(queue) :
      a < b => comparator(queue[a], queue[b]) <= 0

(***************************************************************************)
(* Properties of flushPreFlushCbs.                                         *)
(***************************************************************************)
\* the loop of flushPreFlushCbs is at its end: the call returns
PreReturns == ~thrown /\ STop.kind = "pre" /\ STop.i >= Len(queue)

\* the index flushPreFlushCbs() starts its scan at
PreStartIndex == IF isFlushing THEN flushIndex + 1 ELSE 0

\* the jobs of q that are not pre jobs, in their order
NonPre(q) == SelectSeq(q, LAMBDA j : ~pre(j))

\* when flushPreFlushCbs returns, no pre job is left at or after the start index
PreJobsDrained ==
  PreReturns => \A k \in (PreStartIndex + 1)..Len(queue) : ~pre(queue[k])

\* a step of the loop invokes only the pre job it has just removed, and leaves
\* the other jobs in queue in their order
PreStepRemovesThenInvokes ==
  (~thrown /\ STop.kind = "pre") =>
    /\ NonPre(queue') = NonPre(queue)
    /\ Len(callStack') > Len(callStack) =>
          LET call == callStack'[Len(callStack')]
          IN /\ call.kind = "call" /\ call.role = "pre" /\ pre(call.fn)
             /\ queue[STop.i + 1] = call.fn
             /\ queue' = RemoveAt(queue, STop.i)

\* C24: when flushPreFlushCbs() returns, every pre job that was in queue at or
\* after the start index, including the pre jobs enqueued by the pre jobs it
\* invoked, has been removed from queue and invoked, each removed before it is
\* invoked; non-pre jobs stay in queue in their relative order and are not
\* invoked.
FlushPreDrainsAll == []PreJobsDrained /\ [][PreStepRemovesThenInvokes]_vars

(***************************************************************************)
(* Properties of the jobs as a whole.                                      *)
(***************************************************************************)
\* the microtask checkpoint has run every microtask
AtRest == callStack = <<>> /\ region = "micro" /\ microtasks = <<>>

\* C25: whenever queue or pendingPostFlushCbs is non-empty a drain is pending
\* or running, and once the microtasks have run every job that queueJob
\* accepted and that was neither invalidated nor deactivated has been invoked,
\* once per accepted enqueue, and queue and pendingPostFlushCbs are empty.
NoJobLost ==
  /\ (queue # <<>> \/ pendingPostFlushCbs # <<>>) => (isFlushPending \/ isFlushing)
  /\ AtRest =>
        /\ queue = <<>> /\ pendingPostFlushCbs = <<>>
        /\ \A j \in Jobs : accepted[j] = 0

====
